---------------------------- MODULE Spec2Model ----------------------------
(***************************************************************************)
(* osslsigncode.c: Authenticode signing, extraction, removal and           *)
(* verification for PE, CAB and MSI files.                                  *)
(*                                                                         *)
(* The state is a small file system and the position of one invocation of  *)
(* main(): each action is a stretch of main() between two points at which  *)
(* the output file is observable (created, written, finished, unlinked).   *)
(* Files are byte sequences; header fields are read and written            *)
(* little-endian at the offsets the source uses.                           *)
(*                                                                         *)
(* External primitives (the message digest, the RSA signature, the DER     *)
(* coding of the PKCS#7) are modelled by small deterministic codes that    *)
(* keep what the program relies on: a digest depends on every byte fed,    *)
(* on their order and on their number; a DER blob carries its own length;  *)
(* d2i rejects what i2d cannot have written.                               *)
(***************************************************************************)
EXTENDS Integers, Sequences, FiniteSets, TLC

VARIABLES
    fs,        \* the file system: path -> bytes, defined on the existing files
    made,      \* history: path -> how the file at that path came to be
    cur,       \* the path of the most recent file (input of the next run)
    runs,      \* invocations of main() completed so far
    pc,        \* position inside main(); "idle" between invocations
    cmd,       \* cmd_type_t of the running invocation
    md,        \* the digest chosen with -h (EVP_sha1 by default)
    desc,      \* whether -n / -i was given (SpcSpOpusInfo attribute present)
    infile,    \* input path
    outfile,   \* output path ("none" for verify: outfile == NULL)
    type,      \* file_type_t
    peheader,  \* unsigned int peheader
    pe32plus,  \* int pe32plus
    sigpos,    \* unsigned int sigpos
    siglen,    \* unsigned int siglen
    fileend,   \* off_t fileend (its low 32 bits)
    hash,      \* the digest context of BIO_f_md: what has been fed so far
    siginfo,   \* len, padlen of the DER PKCS#7 once built; the timestamp
               \* request posted on the way
    ret,       \* int ret
    vfy,       \* locals of verify_pe_file: pos, mdtype, mdbuf, p7, ...
    last,      \* summary of the last finished invocation
    curl       \* the transfer of add_timestamp: the static blob_has_nl,
               \* the reply collected in bin, the chunks still on the way

vars == <<fs, made, cur, runs, pc, cmd, md, desc, infile, outfile, type,
          peheader, pe32plus, sigpos, siglen, fileend, hash, siginfo, ret,
          vfy, last, curl>>

-----------------------------------------------------------------------------
(* Bounds of the model. *)

\* invocations of main() in one behaviour
MaxRuns == 2

-----------------------------------------------------------------------------
(* Machine arithmetic.  An unsigned int is kept as two 16-bit halves, so   *)
(* that 32-bit wrap-around is exact.                                       *)

B16 == 256 * 256

U32(n) == [hi |-> (n \div B16) % B16, lo |-> n % B16]

Add32(a, b) ==
    LET s == a.lo + b.lo
    IN [hi |-> (a.hi + b.hi + (s \div B16)) % B16, lo |-> s % B16]

Sub32(a, b) ==
    LET d == a.lo - b.lo
        borrow == IF d < 0 THEN 1 ELSE 0
    IN [hi |-> (a.hi - b.hi - borrow + 2 * B16) % B16, lo |-> (d + B16) % B16]

Lt32(a, b) == a.hi < b.hi \/ (a.hi = b.hi /\ a.lo < b.lo)

\* (int)x for an unsigned int x
AsInt(a) == (IF a.hi >= 32768 THEN a.hi - B16 ELSE a.hi) * B16 + a.lo

\* the distance from a pointer to pointer + x (64-bit pointers: no wrap).
\* Every modelled mapping is shorter than 64 KiB, so any x >= 2^16 lands
\* beyond it and is kept as FarOff.
FarOff == B16
PtrOff(a) == IF a.hi = 0 THEN a.lo ELSE FarOff

Min(a, b) == IF a < b THEN a ELSE b
Max(a, b) == IF a < b THEN b ELSE a

Zeros(n) == [i \in 1..n |-> 0]

PUT_UINT16_LE(i) == <<i % 256, (i \div 256) % 256>>

PUT_UINT32_LE(a) == <<a.lo % 256, a.lo \div 256, a.hi % 256, a.hi \div 256>>

\* seq with the bytes at offsets [off, off + Len(w)) replaced by w
\* (BIO_seek + BIO_write inside an existing file)
Patch(seq, off, w) ==
    SubSeq(seq, 1, Min(off, Len(seq))) \o Zeros(Max(0, off - Len(seq))) \o w
        \o SubSeq(seq, off + Len(w) + 1, Len(seq))

-----------------------------------------------------------------------------
(* The input mapping: indata = mmap(0, st.st_size, PROT_READ, ...).        *)
(* Bytes past the end of the file up to the end of its last page read as   *)
(* zero; an access beyond the last page is undefined: the process is       *)
(* killed (Crash) or reads whatever is mapped there (a garbage byte).      *)

PAGE_SIZE == 4096

PageEnd(f) == ((Len(f) + PAGE_SIZE - 1) \div PAGE_SIZE) * PAGE_SIZE

Crash == 0 - 1
OobOutcomes == {Crash, 0, 255}

\* the byte at indata[off]; g is what an access beyond the mapping reads
MapByte(f, off, g) ==
    IF off < 0 THEN g
    ELSE IF off < Len(f) THEN f[off + 1]
    ELSE IF off < PageEnd(f) THEN 0
    ELSE g

MapRead(f, off, n, g) ==
    IF off >= 0 /\ off + n <= Len(f) THEN SubSeq(f, off + 1, off + n)
    ELSE [i \in 1..n |-> MapByte(f, off + i - 1, g)]

\* the access [off, off+n) leaves the mapping
Beyond(f, off, n) == n > 0 /\ (off < 0 \/ off + n > PageEnd(f))

GET_UINT16_LE(f, off, g) == MapByte(f, off, g) + 256 * MapByte(f, off + 1, g)

GET_UINT32_LE(f, off, g) ==
    [hi |-> MapByte(f, off + 2, g) + 256 * MapByte(f, off + 3, g),
     lo |-> MapByte(f, off, g) + 256 * MapByte(f, off + 1, g)]

-----------------------------------------------------------------------------
(* calc_pe_checksum / recalc_pe_checksum.                                  *)

\* checkSum = 0xffff & (checkSum + (checkSum >> 0x10))
Fold16(c) == (c + (c \div B16)) % B16

\* the k-th 16-bit word the loop reads (size = 2k when it is read), zeroed
\* when size == peheader + 88 or size == peheader + 90
CkWord(f, ph, k) ==
    IF U32(2 * k) = Add32(ph, U32(88)) \/ U32(2 * k) = Add32(ph, U32(90))
    THEN 0
    ELSE f[2 * k + 1] + 256 * f[2 * k + 2]

\* The loop adds the words [lo, hi) with end-around carry.  That addition
\* is associative, so the words are folded in a balanced tree: the result
\* is the one of the left-to-right loop.
RECURSIVE CkFold(_, _, _, _)
CkFold(f, ph, lo, hi) ==
    IF hi <= lo THEN 0
    ELSE IF hi = lo + 1 THEN Fold16(CkWord(f, ph, lo))
    ELSE LET mid == (lo + hi) \div 2
         IN Fold16(CkFold(f, ph, lo, mid) + CkFold(f, ph, mid, hi))

calc_pe_checksum_nosize(f, ph) == U32(Fold16(CkFold(f, ph, 0, Len(f) \div 2)))

\* BIO_read(bio, &val, 2) == 2 fails on a trailing odd byte: it is not read
calc_pe_checksum(f, ph) ==
    LET nwords == Len(f) \div 2
        size == 2 * nwords
    IN U32(Fold16(CkFold(f, ph, 0, nwords)) + size)

\* the offset BIO_seek(bio, peheader + 88) reaches: a negative int fails
\* and leaves the position at the end of file, where the read loop stopped
CkSeek(f, ph) ==
    LET o == AsInt(Add32(ph, U32(88)))
    IN IF o < 0 THEN Len(f) ELSE o

recalc_pe_checksum(f, ph) ==
    Patch(f, CkSeek(f, ph), PUT_UINT32_LE(calc_pe_checksum(f, ph)))

-----------------------------------------------------------------------------
(* The message digest (EVP_MD, BIO_f_md).  The context keeps a weighted     *)
(* sum of the bytes fed and their number; the digest is EVP_MD_size(md)    *)
(* bytes derived from both and from the algorithm.                         *)

Mds == {"md5", "sha1", "sha256"}

EVP_MD_size(m) == IF m = "md5" THEN 16 ELSE IF m = "sha1" THEN 20 ELSE 32

\* the last arc of the algorithm's object identifier, as the DER carries it
AlgCode(m) == IF m = "md5" THEN 5 ELSE IF m = "sha1" THEN 26 ELSE 1

\* OBJ_obj2nid + EVP_get_digestbynid: "none" when no digest has that code
AlgOfCode(c) ==
    IF c = 5 THEN "md5" ELSE IF c = 26 THEN "sha1"
    ELSE IF c = 1 THEN "sha256" ELSE "none"

HashMod == B16 - 15

RECURSIVE WSum(_, _, _, _)
WSum(b, base, lo, hi) ==
    IF hi <= lo THEN 0
    ELSE IF hi = lo + 1 THEN (((base + lo) % 251) + 1) * (b[lo + 1] + 1)
    ELSE LET mid == (lo + hi) \div 2
         IN (WSum(b, base, lo, mid) + WSum(b, base, mid, hi)) % HashMod

DigestInit == [s |-> 0, n |-> 0]

DigestUpdate(ctx, b) ==
    [s |-> (ctx.s + WSum(b, ctx.n, 0, Len(b))) % HashMod, n |-> ctx.n + Len(b)]

DigestFinal(m, ctx) ==
    [k \in 1..EVP_MD_size(m) |->
        IF k = 1 THEN ctx.s % 256
        ELSE IF k = 2 THEN ctx.s \div 256
        ELSE IF k = 3 THEN ctx.n % 256
        ELSE IF k = 4 THEN (ctx.n \div 256) % 256
        ELSE (AlgCode(m) + k) % 256]

DigestOf(m, b) == DigestFinal(m, DigestUpdate(DigestInit, b))

-----------------------------------------------------------------------------
(* The ASN.1 side: SpcIndirectDataContent and the PKCS#7 SignedData, in a  *)
(* compact tag-length-value code (every length below 128: short form).     *)

\* the last arc of SPC_PE_IMAGE_DATA_OBJID, SPC_CAB_DATA_OBJID,
\* SPC_SIPINFO_OBJID
TypeCode(t) == IF t = "PE" THEN 15 ELSE IF t = "CAB" THEN 25 ELSE 30

\* the blob with a zero-filled digest of the right length
get_indirect_data_blob(m, t) ==
    <<48, 4 + EVP_MD_size(m), TypeCode(t), AlgCode(m), 4, EVP_MD_size(m)>>
        \o Zeros(EVP_MD_size(m))

asn1_simple_hdr_len(p, len) ==
    IF len <= 2 \/ p[1] > 49 THEN 0
    ELSE IF p[2] >= 128 THEN (2 + p[2]) % 128 ELSE 2

IdcBuf_nodigest(m, t, mdbuf) == get_indirect_data_blob(m, t)

\* main: len -= EVP_MD_size(md); memcpy(buf, p, len);
\*       memcpy(buf+len, mdbuf, mdlen)
IdcBuf(m, t, mdbuf) ==
    LET blob == get_indirect_data_blob(m, t)
        len == Len(blob) - EVP_MD_size(m)
    IN SubSeq(blob, 1, len) \o mdbuf

\* what is handed to BIO_write(sigdata, buf+seqhdrlen, len-seqhdrlen+mdlen)
\* and, in verify, to PKCS7_verify: the blob without its SEQUENCE header
IdcContent(buf, len) ==
    SubSeq(buf, asn1_simple_hdr_len(buf, len) + 1, Len(buf))

\* the signer's encryptedDigest over the content (PKCS7_dataFinal)
RsaSign(alg, content) ==
    LET c == DigestUpdate(DigestInit, content)
    IN <<(c.s + 90) % 256, (c.s \div 256) % 256, (c.n + alg) % 256, 165>>

\* the signed attributes after contentType: SpcStatementType (individual),
\* and SpcSpOpusInfo when a description or URL was given
SignedAttrs(d) == <<21>> \o (IF d THEN <<12, 1, 78>> ELSE <<>>)

\* i2d_PKCS7(sig): signedData (2), contentType SPC_INDIRECT_DATA_OBJID (4),
\* the SpcIndirectDataContent with its SEQUENCE header, the SignerInfo
i2d_PKCS7(m, buf, d) ==
    LET len == Len(buf) - EVP_MD_size(m)
        body == <<2, 4>> \o buf \o <<AlgCode(m)>>
                  \o RsaSign(AlgCode(m), IdcContent(buf, len)) \o SignedAttrs(d)
    IN <<48, Len(body)>> \o body

NoP7 == [ok |-> FALSE, signed |-> FALSE, ctype |-> 0, seqtag |-> 0,
         astr |-> <<>>, alg |-> 0, sig |-> <<>>]

\* d2i_PKCS7(NULL, &blob, n) on the n bytes w
d2i_PKCS7(w) ==
    IF /\ Len(w) >= 6
       /\ w[1] = 48
       /\ w[2] < 128
       /\ w[2] + 2 <= Len(w)
       /\ w[6] < 128
       /\ 2 + 2 + w[6] + 5 + 1 <= w[2]
    THEN LET l2 == w[6]
         IN [ok |-> TRUE, signed |-> w[3] = 2, ctype |-> w[4], seqtag |-> w[5],
             astr |-> SubSeq(w, 5, 6 + l2), alg |-> w[7 + l2],
             sig |-> SubSeq(w, 8 + l2, 11 + l2)]
    ELSE NoP7

NoIdc == [ok |-> FALSE, alg |-> 0, digest |-> <<>>]

\* d2i_SpcIndirectDataContent(NULL, &p, astr->length)
d2i_SpcIndirectDataContent(a) ==
    IF /\ Len(a) >= 6
       /\ a[1] = 48
       /\ a[2] = Len(a) - 2
       /\ a[5] = 4
       /\ a[6] = Len(a) - 6
    THEN [ok |-> TRUE, alg |-> a[4], digest |-> SubSeq(a, 7, Len(a))]
    ELSE NoIdc

PKCS7_verify_whole(p7, content) == p7.sig = RsaSign(p7.alg, p7.astr)

\* PKCS7_verify(p7, certs, store, bio, NULL, PKCS7_NOVERIFY): the signature
\* is the signer's over the content in bio
PKCS7_verify(p7, content) == p7.sig = RsaSign(p7.alg, content)

-----------------------------------------------------------------------------
(* calc_pe_digest: the digest verify recomputes, read from a memory BIO    *)
(* through the static buffer bfb (zero-filled at program start).           *)

\* bfb after BIO_read(bio, bfb, want) at position pos of bio
BfbRead(bfb, bio, pos, want) ==
    LET got == Max(0, Min(want, Len(bio) - pos))
    IN [i \in 1..Len(bfb) |-> IF i <= got THEN bio[pos + i] ELSE bfb[i]]

BioGot(bio, pos, want) == Max(0, Min(want, Len(bio) - pos))

calc_pe_digest_ctx_whole(bio, ph, plus, fe) ==
    DigestUpdate(DigestInit, SubSeq(bio, 1, Min(Len(bio), AsInt(fe))))

calc_pe_digest_ctx(bio, ph, plus, fe) ==
    LET n1   == Max(0, AsInt(Add32(ph, U32(88))))
        n2   == 60 + plus * 16
        bfb0 == Zeros(Max(n1, n2))
        bfb1 == BfbRead(bfb0, bio, 0, n1)
        p1   == BioGot(bio, 0, n1)
        bfb2 == BfbRead(bfb1, bio, p1, 4)
        p2   == p1 + BioGot(bio, p1, 4)
        bfb3 == BfbRead(bfb2, bio, p2, n2)
        p3   == p2 + BioGot(bio, p2, n2)
        p4   == p3 + BioGot(bio, p3, 8)
        n    == Add32(ph, U32(88 + 4 + n2 + 8))
        want == IF Lt32(n, fe) THEN AsInt(Sub32(fe, n)) ELSE 0
        l    == BioGot(bio, p4, want)
        c1   == DigestUpdate(DigestInit, SubSeq(bfb1, 1, n1))
        c2   == DigestUpdate(c1, SubSeq(bfb3, 1, n2))
    IN DigestUpdate(c2, SubSeq(bio, p4 + 1, p4 + l))

calc_pe_digest(bio, m, ph, plus, fe) ==
    DigestFinal(m, calc_pe_digest_ctx(bio, ph, plus, fe))

-----------------------------------------------------------------------------
(* main, PE branch: the copy of the input through the digest BIO into the  *)
(* output (lines 1558-1577), and the pieces appended on sign.              *)

\* len = 8 - fileend % 8; if (len > 0 && len != 8) pad with len zeros
PadTo8_none(fe) == 0

PadTo8(fe) == IF 8 - (fe.lo % 8) # 8 THEN 8 - (fe.lo % 8) ELSE 0

\* out: the bytes written to outdata; ctx: the digest context after them;
\* fileend: fileend after padding; ub: some read left the mapping
PeCopy(f, ph, plus, fe, g) ==
    LET n1  == AsInt(Add32(ph, U32(88)))
        i1  == n1 + 4
        n2  == 60 + plus * 16
        i3  == i1 + n2 + 8
        n3  == AsInt(Sub32(fe, U32(i3)))
        w1  == MapRead(f, 0, Max(0, n1), g)
        w2  == MapRead(f, i1, n2, g)
        w3  == MapRead(f, i3, Max(0, n3), g)
        pad == Zeros(PadTo8(fe))
        c1  == DigestUpdate(DigestInit, w1)
        c2  == DigestUpdate(c1, w2)
        c3  == DigestUpdate(c2, w3)
    IN [out     |-> w1 \o Zeros(4) \o w2 \o Zeros(8) \o w3 \o pad,
        ctx     |-> DigestUpdate(c3, pad),
        fileend |-> Add32(fe, U32(PadTo8(fe))),
        ub      |-> Beyond(f, 0, n1) \/ Beyond(f, i1, n2) \/ Beyond(f, i3, n3)]

PadLen_nomod(len) == 8 - (len % 8)

\* padlen = (8 - len%8) % 8
PadLen(len) == (8 - (len % 8)) % 8

WIN_CERT_REVISION_2 == 512
WIN_CERT_TYPE_PKCS_SIGNED_DATA == 2

\* the WIN_CERTIFICATE header, the DER blob and its padding
PeAppend(p7) ==
    PUT_UINT32_LE(U32(Len(p7) + 8 + PadLen(Len(p7))))
        \o PUT_UINT16_LE(WIN_CERT_REVISION_2)
        \o PUT_UINT16_LE(WIN_CERT_TYPE_PKCS_SIGNED_DATA)
        \o p7 \o Zeros(PadLen(Len(p7)))

\* BIO_seek(outdata, off): a negative int fails and leaves the position
\* where the last write ended, at the end of the file
SeekOff(out, o) == IF o < 0 THEN Len(out) ELSE o

PutDirEntry_sizefirst(out, ph, plus, fe, len, padlen) ==
    Patch(out, SeekOff(out, AsInt(Add32(ph, U32(152 + plus * 16)))),
          PUT_UINT32_LE(U32(len + 8 + padlen)) \o PUT_UINT32_LE(fe))

\* skip_signing, PE and CMD_SIGN: the directory entry gets fileend and
\* len+8+padlen
PutDirEntry(out, ph, plus, fe, len, padlen) ==
    Patch(out, SeekOff(out, AsInt(Add32(ph, U32(152 + plus * 16)))),
          PUT_UINT32_LE(fe) \o PUT_UINT32_LE(U32(len + 8 + padlen)))

PutCabBlobLen_0x34(out, len, padlen) ==
    Patch(out, 52, PUT_UINT32_LE(U32(len + padlen)))

\* skip_signing, CAB: BIO_seek(outdata, 0x30); the dword gets len+padlen
PutCabBlobLen(out, len, padlen) ==
    Patch(out, 48, PUT_UINT32_LE(U32(len + padlen)))

\* the DER blob main builds from the digest context of the copy
SignatureFor(m, t, ctx, d) ==
    i2d_PKCS7(m, IdcBuf(m, t, DigestFinal(m, ctx)), d)

-----------------------------------------------------------------------------
(* main, CAB branch (lines 1465-1508): the header is rewritten with a      *)
(* 20-byte reserve area; sizes and offsets grow by 24.                     *)

\* nfolders = indata[26] | (indata[27] << 8)
CabFolders(f, g) == GET_UINT16_LE(f, 26, g)

CabFolderBytes_same(f, nf, g) == MapRead(f, 36, 8 * nf, g)

\* the loop over the folder entries: offset + 24, then the other 4 bytes
CabFolderBytes(f, nf, g) ==
    [j \in 1..(8 * nf) |->
        LET k == (j - 1) \div 8
            r == (j - 1) % 8
        IN IF r < 4
           THEN PUT_UINT32_LE(Add32(GET_UINT32_LE(f, 36 + 8 * k, g), U32(24)))[r + 1]
           ELSE MapByte(f, 36 + 8 * k + r, g)]

\* the pieces of the rewritten cabinet.  h1, h2, h3 are written with
\* BIO_write(hash, ...): they go through the digest and on to the file;
\* r1, r2 and res are written with BIO_write(outdata, ...): to the file only
CabParts(f, g) ==
    LET nf   == CabFolders(f, g)
        i    == 36 + 8 * nf
        sz   == PUT_UINT32_LE(Add32(GET_UINT32_LE(f, 8, g), U32(24)))
        off  == PUT_UINT32_LE(Add32(GET_UINT32_LE(f, 16, g), U32(24)))
        b14  == Patch(MapRead(f, 20, 14, g), 10, <<4>>)
    IN [h1  |-> MapRead(f, 0, 4, g),
        r1  |-> MapRead(f, 4, 4, g),
        h2  |-> sz \o MapRead(f, 12, 4, g) \o off \o b14,
        r2  |-> MapRead(f, 34, 2, g),
        res |-> <<20, 0, 0, 0, 0, 0, 16, 0>> \o sz \o <<222, 173, 190, 239>>
                   \o Zeros(4),
        h3  |-> Zeros(4) \o CabFolderBytes(f, nf, g)
                   \o MapRead(f, i, Max(0, Len(f) - i), g),
        ub  |-> Beyond(f, 36, 8 * nf)]

CabCopy_hashall(f, g) ==
    LET p   == CabParts(f, g)
        out == p.h1 \o p.r1 \o p.h2 \o p.r2 \o p.res \o p.h3
    IN [out |-> out, ctx |-> DigestUpdate(DigestInit, out), ub |-> p.ub]

\* out: the file; ctx: the digest context after what went through it
CabCopy(f, g) ==
    LET p == CabParts(f, g)
    IN [out |-> p.h1 \o p.r1 \o p.h2 \o p.r2 \o p.res \o p.h3,
        ctx |-> DigestUpdate(DigestInit, p.h1 \o p.h2 \o p.h3),
        ub  |-> p.ub]

-----------------------------------------------------------------------------
(* MSI (WITH_GSF).  An OLE container is kept as: the 8 magic bytes, the    *)
(* 16 bytes of the class id, the number of streams, then per stream the    *)
(* length of its name, the length of its data, the name and the data.      *)

msi_signature == <<208, 207, 17, 224, 161, 177, 26, 225>>

\* "\05DigitalSignature"
DigSigName == <<5, 68, 105, 103, 105, 116, 97, 108, 83, 105, 103, 110, 97,
                116, 117, 114, 101>>

At(q, i) == IF i >= 1 /\ i <= Len(q) THEN q[i] ELSE 0

msi_base64_decode(x) ==
    IF x < 10 THEN x + 48
    ELSE IF x < 36 THEN x - 10 + 65
    ELSE IF x < 62 THEN x - 36 + 97
    ELSE IF x = 62 THEN 46
    ELSE 1

\* x ^ 0xa0
XorA0(x) ==
    LET b7 == IF x >= 128 THEN x - 128 ELSE x + 128
    IN IF (b7 \div 32) % 2 = 1 THEN b7 - 32 ELSE b7 + 32

RECURSIVE MsiDecodeFrom(_, _)
MsiDecodeFrom(in, i) ==
    LET ch == At(in, i)
        n  == 1 + (IF ch >= 193 THEN 1 ELSE 0) + (IF ch >= 224 THEN 1 ELSE 0)
                + (IF ch >= 240 THEN 1 ELSE 0)
    IN IF ch = 0 THEN <<>>
       ELSE IF (ch = 227 /\ At(in, i + 1) >= 160)
                \/ (ch = 228 /\ At(in, i + 1) < 160)
       THEN <<msi_base64_decode(At(in, i + 2) % 128),
              msi_base64_decode(XorA0(At(in, i + 1)))>>
                \o MsiDecodeFrom(in, i + 3)
       ELSE IF ch = 228 /\ At(in, i + 1) = 160
       THEN <<msi_base64_decode(At(in, i + 2) % 128)>>
                \o MsiDecodeFrom(in, i + 3)
       ELSE [k \in 1..n |-> At(in, i + k - 1)] \o MsiDecodeFrom(in, i + n)

msi_decode(in) ==
    IF At(in, 1) = 228 /\ At(in, 2) = 161 /\ At(in, 3) = 128
    THEN MsiDecodeFrom(in, 4)
    ELSE MsiDecodeFrom(in, 1)

\* g_utf8_to_utf16 seen as bytes (little-endian code units)
RECURSIVE Utf16Bytes(_, _)
Utf16Bytes(a, i) ==
    LET ch == At(a, i)
    IN IF i > Len(a) THEN <<>>
       ELSE IF ch < 128 THEN <<ch, 0>> \o Utf16Bytes(a, i + 1)
       ELSE IF ch < 224
       THEN LET u == (ch % 32) * 64 + (At(a, i + 1) % 64)
            IN <<u % 256, u \div 256>> \o Utf16Bytes(a, i + 2)
       ELSE LET u == (ch % 16) * 4096 + (At(a, i + 1) % 64) * 64
                        + (At(a, i + 2) % 64)
            IN <<u % 256, u \div 256>> \o Utf16Bytes(a, i + 3)

\* strlen on a byte buffer followed by the terminating zero
StrLen(q) ==
    IF \E i \in 1..Len(q) : q[i] = 0
    THEN (CHOOSE i \in 1..Len(q) : q[i] = 0 /\ \A j \in 1..(i - 1) : q[j] # 0) - 1
    ELSE Len(q)

\* memcmp(pa, pb, n): the difference of the first differing bytes
MemCmp(pa, pb, n) ==
    IF \E i \in 1..n : pa[i] # pb[i]
    THEN LET i == CHOOSE i \in 1..n : pa[i] # pb[i] /\ \A j \in 1..(i - 1) : pa[j] = pb[j]
         IN pa[i] - pb[i]
    ELSE 0

msi_cmp(a, b) ==
    LET pa == Utf16Bytes(a, 1)
        pb == Utf16Bytes(b, 1)
        diff == MemCmp(pa, pb, Min(StrLen(pa), StrLen(pb)))
    IN IF diff = 0
       THEN (IF StrLen(pa) > StrLen(pb) THEN 1 ELSE 0 - 1)
       ELSE diff

\* g_slist_insert_sorted(list, x, msi_cmp): before the first element e
\* with msi_cmp(x, e) <= 0
InsertSorted(list, x) ==
    LET before == {j \in 1..Len(list) : \A k \in 1..j : msi_cmp(x, list[k]) > 0}
        n == Cardinality(before)
    IN SubSeq(list, 1, n) \o <<x>> \o SubSeq(list, n + 1, Len(list))

\* the streams of the container f, in directory order
RECURSIVE MsiStreams(_, _, _)
MsiStreams(f, off, k) ==
    IF k = 0 \/ off + 2 > Len(f) THEN <<>>
    ELSE LET nl == f[off + 1]
             dl == f[off + 2]
         IN IF off + 2 + nl + dl > Len(f) THEN <<>>
            ELSE <<[name |-> SubSeq(f, off + 3, off + 2 + nl),
                    data |-> SubSeq(f, off + 3 + nl, off + 2 + nl + dl)]>>
                   \o MsiStreams(f, off + 2 + nl + dl, k - 1)

MsiClassId(f) == SubSeq(f, 9, 24)

MsiChildren(f) == IF Len(f) < 25 THEN <<>> ELSE MsiStreams(f, 25, f[25])

\* the first loop: the names of the children except the signature's
RECURSIVE MsiSorted(_, _)
MsiSorted(ch, k) ==
    IF k = 0 THEN <<>>
    ELSE IF msi_decode(ch[k].name) = DigSigName THEN MsiSorted(ch, k - 1)
    ELSE InsertSorted(MsiSorted(ch, k - 1), ch[k].name)

\* gsf_infile_child_by_name: the first child of that name
ChildByName(ch, nm) ==
    ch[CHOOSE i \in 1..Len(ch) : ch[i].name = nm /\ \A j \in 1..(i - 1) : ch[j].name # nm]

RECURSIVE MsiFlat(_, _, _)
MsiFlat(ch, names, k) ==
    IF k > Len(names) THEN <<>>
    ELSE ChildByName(ch, names[k]).data \o MsiFlat(ch, names, k + 1)

RECURSIVE MsiEncode(_, _, _)
MsiEncode(ch, names, k) ==
    IF k > Len(names) THEN <<>>
    ELSE LET c == ChildByName(ch, names[k])
         IN <<Len(c.name), Len(c.data)>> \o c.name \o c.data
                \o MsiEncode(ch, names, k + 1)

\* ctx: the digest over the sorted streams and the class id; out: the
\* container written when outole is closed, with the signature stream sg
MsiCopy(f) ==
    LET ch == MsiChildren(f)
        names == MsiSorted(ch, Len(ch))
    IN [ctx |-> DigestUpdate(DigestUpdate(DigestInit, MsiFlat(ch, names, 1)),
                             MsiClassId(f)),
        names |-> names]

MsiOut(f, names, sg) ==
    msi_signature \o MsiClassId(f) \o <<Len(names) + 1>>
        \o MsiEncode(MsiChildren(f), names, 1)
        \o <<Len(DigSigName), Len(sg)>> \o DigSigName \o sg

-----------------------------------------------------------------------------
(* add_timestamp (ENABLE_CURL): the request posted to the timestamp server *)
(* and the countersignature taken from its reply.                          *)

\* -t (Authenticode), -ts (RFC 3161), or neither (a behaviour gives at
\* most one of the two)
TsModes == {"none", "authenticode", "rfc3161"}

\* no request posted
NoReq == [kind |-> "none", version |-> 0, alg |-> 0, digest |-> <<>>,
          certReq |-> FALSE]

\* TimeStampReq: version 1, the digest algorithm of md, mdbuf as the
\* hashed message, certReq (the address of a local int 1, read as a
\* boolean: true).  mdbuf is the one main took from the file hash.
TimeStampReq(m, mdbuf, enc) ==
    [kind |-> "rfc3161", version |-> 1, alg |-> AlgCode(m),
     digest |-> SubSeq(mdbuf, 1, EVP_MD_size(m)), certReq |-> TRUE]

\* TimeStampRequest of the legacy protocol: the signer's encryptedDigest
TimeStampRequest(enc) ==
    [kind |-> "authenticode", version |-> 0, alg |-> 0, digest |-> enc,
     certReq |-> FALSE]

\* the request add_timestamp posts in mode ts
TsRequest(ts, m, mdbuf, enc) ==
    IF ts = "rfc3161" THEN TimeStampReq(m, mdbuf, enc)
    ELSE IF ts = "authenticode" THEN TimeStampRequest(enc)
    ELSE NoReq

\* PKCS7_add_attribute(si, NID_pkcs9_countersignature, ...): the DER of
\* sig grows by the unauthenticated attribute
AddCountersignature(ts, p7) ==
    IF ts = "none" THEN p7
    ELSE <<48, p7[2] + 2>> \o SubSeq(p7, 3, Len(p7))
            \o <<6, IF ts = "rfc3161" THEN 2 ELSE 1>>

\* '\n'
NL == 10

\* no transfer: blob_has_nl is a static int, 0 when the process starts;
\* sizes: sz*nmemb of the calls of the write callback so far
NoCurl == [state |-> "idle", rfc3161 |-> FALSE, blob_has_nl |-> 0,
           bin |-> <<>>, pending |-> <<>>, sizes |-> <<>>, flags |-> {},
           ret |-> 0]

\* memchr(ptr, ch, n) # NULL
memchr(ptr, ch) == \E i \in 1..Len(ptr) : ptr[i] = ch

\* curl_write sniffing the first chunk it is handed and no other
curl_write_first(c, ptr) ==
    [c EXCEPT !.blob_has_nl =
                  IF Len(ptr) > 0 /\ c.sizes = <<>> /\ memchr(ptr, NL)
                  THEN 1 ELSE @,
              !.bin = @ \o ptr,
              !.sizes = Append(@, Len(ptr))]

\* curl_write (CURLOPT_WRITEFUNCTION): called once for each chunk of the
\* body, in order; looks for '\n' until one was seen, appends to bin
curl_write(c, ptr) ==
    [c EXCEPT !.blob_has_nl =
                  IF Len(ptr) > 0 /\ c.blob_has_nl = 0
                  THEN (IF memchr(ptr, NL) THEN 1 ELSE @)
                  ELSE @,
              !.bin = @ \o ptr,
              !.sizes = Append(@, Len(ptr))]

-----------------------------------------------------------------------------
(* The input files of the model.                                           *)

FillByte(o) == ((o * 7 + 3) % 251) + 1

\* n bytes laid out as a PE image: "MZ", e_lfanew at 60, "PE\0\0" at ph,
\* the optional-header magic at ph+24, the checksum at ph+88, the number of
\* data directories at ph+116+16*plus, the certificate-table entry at
\* ph+152+16*plus; every other byte is a nonzero filler
MkPE(ph, plus, magic, nrvas, pesig, cks, dir, n) ==
    [i \in 1..n |->
        LET o == i - 1
            d == ph + 152 + 16 * plus
            r == ph + 116 + 16 * plus
        IN IF o = 0 THEN 77
           ELSE IF o = 1 THEN 90
           ELSE IF o >= 60 /\ o < 64 THEN PUT_UINT32_LE(U32(ph))[o - 59]
           ELSE IF pesig /\ o >= ph /\ o < ph + 4 THEN <<80, 69, 0, 0>>[o - ph + 1]
           ELSE IF o >= ph + 24 /\ o < ph + 26 THEN PUT_UINT16_LE(magic)[o - ph - 23]
           ELSE IF o >= ph + 88 /\ o < ph + 92 THEN cks[o - ph - 87]
           ELSE IF o >= r /\ o < r + 4 THEN PUT_UINT32_LE(U32(nrvas))[o - r + 1]
           ELSE IF o >= d /\ o < d + 8 THEN dir[o - d + 1]
           ELSE FillByte(o)]

Magic(plus) == IF plus = 1 THEN 523 ELSE 267

HdrLen(ph, plus) == ph + 160 + 16 * plus

\* an unsigned image with tail bytes after the headers, checksum not set
RawPE(ph, plus, tail) ==
    MkPE(ph, plus, Magic(plus), 16, TRUE, Zeros(4), Zeros(8),
         HdrLen(ph, plus) + tail)

\* the same with its checksum set
PlainPE(ph, plus, tail) == recalc_pe_checksum(RawPE(ph, plus, tail), U32(ph))

\* an image whose directory entry names the table appended after it
TablePE(ph, plus, tail, table) ==
    LET n == HdrLen(ph, plus) + tail
    IN recalc_pe_checksum(
           MkPE(ph, plus, Magic(plus), 16, TRUE, Zeros(4),
                PUT_UINT32_LE(U32(n)) \o PUT_UINT32_LE(U32(Len(table))), n)
             \o table, U32(ph))

\* WIN_CERTIFICATE records that are not an Authenticode signature: a
\* PKCS#7 record whose payload is not DER, an X.509 record, a record of
\* length zero
ForeignTable == <<16, 0, 0, 0, 0, 2, 2, 0, 9, 9, 9, 9, 9, 9, 9, 9>>
X509Table    == <<16, 0, 0, 0, 0, 2, 1, 0, 7, 7, 7, 7, 7, 7, 7, 7>>
ZeroLenTable == <<0, 0, 0, 0, 0, 2, 1, 0, 7, 7, 7, 7, 7, 7, 7, 7>>
\* a record whose length is 2^32 - 1: rounded up to 8 it is 0 again
WrapLenTable == <<255, 255, 255, 255, 0, 2, 1, 0, 7, 7, 7, 7, 7, 7, 7, 7>>

\* what sign writes for the unsigned image f (main, CMD_SIGN, composed)
SignPE(f, m, d) ==
    LET ph   == GET_UINT32_LE(f, 60, 0)
        plus == IF GET_UINT16_LE(f, PtrOff(ph) + 24, 0) = 523 THEN 1 ELSE 0
        cp   == PeCopy(f, ph, plus, U32(Len(f)), 0)
        p7   == SignatureFor(m, "PE", cp.ctx, d)
    IN recalc_pe_checksum(
           PutDirEntry(cp.out \o PeAppend(p7), ph, plus, cp.fileend,
                       Len(p7), PadLen(Len(p7))), ph)

\* f with the byte at offset off changed
Tamper(f, off) == Patch(f, off, <<(f[off + 1] + 1) % 256>>)

Signed1 == SignPE(PlainPE(64, 0, 5), "sha1", FALSE)
Signed2 == SignPE(PlainPE(64, 1, 0), "sha256", TRUE)

\* offsets inside Signed1: its table starts at 232 (229 padded to 8); the
\* encryptedDigest follows the 8-byte header, the 4 bytes before the
\* SpcIndirectDataContent, its 26 bytes and the algorithm byte
Signed1SigPos == HdrLen(64, 0) + 5 + 3
Signed1SigOff == Signed1SigPos + 8 + 4 + 26 + 1

PESeeds ==
    {PlainPE(64, plus, tail) : plus \in {0, 1}, tail \in {0, 5}}
    \cup {TablePE(64, 0, 0, ForeignTable), TablePE(64, 0, 5, ForeignTable),
          TablePE(64, 1, 5, ForeignTable), TablePE(64, 0, 0, X509Table),
          TablePE(64, 0, 0, ZeroLenTable), TablePE(64, 0, 0, WrapLenTable)}
    \cup {Signed1, Signed2,
          \* body changed, checksum set again: only the digest differs
          recalc_pe_checksum(Tamper(Signed1, 100), U32(64)),
          \* encryptedDigest changed, checksum set again
          recalc_pe_checksum(Tamper(Signed1, Signed1SigOff), U32(64)),
          \* only the checksum field changed: one byte, another byte,
          \* the whole field set to zero
          Tamper(Signed1, 64 + 88), Tamper(Signed2, 64 + 90),
          Patch(Signed1, 64 + 88, Zeros(4))}
    \cup {\* PE header at an odd offset
          PlainPE(65, 0, 0),
          \* checksum field zero; checksum field stale
          RawPE(64, 0, 0), Tamper(PlainPE(64, 0, 0), 64 + 88),
          \* unknown magic; fewer than 5 data directories; no "PE\0\0"
          MkPE(64, 0, 300, 16, TRUE, Zeros(4), Zeros(8), 224),
          MkPE(64, 0, 267, 4, TRUE, Zeros(4), Zeros(8), 224),
          MkPE(64, 0, 267, 16, FALSE, Zeros(4), Zeros(8), 224),
          \* shorter than 64 bytes; shorter than peheader + 160
          MkPE(64, 0, 267, 16, TRUE, Zeros(4), Zeros(8), 40),
          MkPE(64, 0, 267, 16, TRUE, Zeros(4), Zeros(8), 100),
          \* PE32+ of exactly peheader + 160 bytes
          MkPE(64, 1, 523, 16, TRUE, Zeros(4), Zeros(8), 224),
          \* table followed by 4 more bytes
          TablePE(64, 0, 0, ForeignTable) \o <<1, 2, 3, 4>>,
          \* peheader = 2^32 - 16: peheader + 160 is 144 modulo 2^32
          Patch(PlainPE(64, 0, 0), 60, PUT_UINT32_LE(Sub32(U32(0), U32(16)))),
          \* sigpos inside the DOS header, sigpos + siglen == size
          MkPE(64, 0, 267, 16, TRUE, Zeros(4),
               PUT_UINT32_LE(U32(8)) \o PUT_UINT32_LE(U32(224 - 8)), 224),
          \* sigpos beyond the mapping, sigpos + siglen == size modulo 2^32
          MkPE(64, 0, 267, 16, TRUE, Zeros(4),
               PUT_UINT32_LE(U32(PAGE_SIZE + 8))
                 \o PUT_UINT32_LE(Sub32(U32(224), U32(PAGE_SIZE + 8))), 224)}

\* a cabinet: "MSCF", cbCabinet at 8, coffFiles at 16, one folder at 36
MkCAB(flags, n) ==
    [i \in 1..n |->
        LET o == i - 1
        IN IF o < 4 THEN <<77, 83, 67, 70>>[o + 1]
           ELSE IF o >= 8 /\ o < 12 THEN PUT_UINT32_LE(U32(n))[o - 7]
           ELSE IF o >= 16 /\ o < 20 THEN PUT_UINT32_LE(U32(44))[o - 15]
           ELSE IF o = 26 THEN 1
           ELSE IF o = 27 THEN 0
           ELSE IF o = 30 THEN flags
           ELSE IF o = 31 THEN 0
           ELSE IF o >= 36 /\ o < 40 THEN PUT_UINT32_LE(U32(44))[o - 35]
           ELSE FillByte(o)]

CABSeeds ==
    {MkCAB(0, 52), MkCAB(4, 52), MkCAB(0, 20),
     \* a flag bit in the high byte only; flag bits in a short cabinet
     Patch(MkCAB(0, 52), 31, <<1>>), MkCAB(4, 40),
     \* two folder entries; three entries announced, the file ending before
     \* the third
     Patch(MkCAB(0, 60), 26, <<2>>), Patch(MkCAB(0, 52), 26, <<3>>),
     \* cbCabinet is not the length of the file
     Patch(MkCAB(0, 52), 8, <<40>>)}

MkMSI(streams) ==
    msi_signature \o [i \in 1..16 |-> 200 + i] \o <<Len(streams)>>
        \o MsiEncode(streams, [i \in 1..Len(streams) |-> streams[i].name], 1)

MSISeeds ==
    {MkMSI(<<[name |-> <<66, 98>>, data |-> <<1, 2>>],
             [name |-> <<65>>, data |-> <<3>>]>>),
     MkMSI(<<[name |-> <<66>>, data |-> <<1, 2>>],
             [name |-> DigSigName, data |-> <<9, 9>>],
             [name |-> <<65, 97>>, data |-> <<3>>]>>),
     \* two names with the same first letter, in both directory orders
     MkMSI(<<[name |-> <<65, 98>>, data |-> <<1, 2>>],
             [name |-> <<65, 97>>, data |-> <<3>>]>>),
     MkMSI(<<[name |-> <<65, 97>>, data |-> <<3>>],
             [name |-> <<65, 98>>, data |-> <<1, 2>>]>>),
     \* a stream whose name is U+4840 followed by "\05DigitalSignature"
     MkMSI(<<[name |-> <<66>>, data |-> <<1, 2>>],
             [name |-> <<228, 161, 128>> \o DigSigName, data |-> <<7, 7, 7>>]>>)}

OtherSeeds == {<<1, 2, 3, 4, 5>>, <<77, 90>>}

Seeds == PESeeds \cup CABSeeds \cup MSISeeds \cup OtherSeeds

-----------------------------------------------------------------------------
(* The state machine: invocations of main(), one after the other, each on  *)
(* the most recent file.                                                   *)

Cmds == {"sign", "extract", "remove", "verify"}

Paths == {"a", "b"}
Other(p) == IF p = "a" THEN "b" ELSE "a"

Unlink(f, p) == [q \in DOMAIN f \ {p} |-> f[q]]
Write(f, p, w) == [q \in DOMAIN f \cup {p} |-> IF q = p THEN w ELSE f[q]]

NoVfy == [pos |-> U32(0), mdtype |-> "unset", mdbuf |-> <<>>, p7 |-> NoP7,
          cmdbuf |-> <<>>, ckok |-> TRUE, found |-> FALSE, mdok |-> FALSE,
          verok |-> FALSE, steps |-> 0]

NoSig == [len |-> 0, padlen |-> 0, tsreq |-> NoReq]

SeedMade == [op |-> "seed", md |-> "none", desc |-> FALSE, ts |-> "none",
             digest |-> <<>>, src |-> <<>>]

\* "no file at that path"
Absent == <<0 - 1>>

\* what lies at the output path before the first invocation
Stale == <<83, 84>>

\* the locals of the running invocation
Locals == [cmd |-> cmd, md |-> md, desc |-> desc, infile |-> infile,
           outfile |-> outfile, type |-> type, peheader |-> peheader,
           pe32plus |-> pe32plus, sigpos |-> sigpos, siglen |-> siglen,
           fileend |-> fileend, siginfo |-> siginfo, vfy |-> vfy]

NoLast == [cmd |-> "none", md |-> "sha1", desc |-> FALSE, infile |-> "none",
           outfile |-> "none", type |-> "none", peheader |-> U32(0),
           pe32plus |-> 0, sigpos |-> U32(0), siglen |-> U32(0),
           fileend |-> U32(0), siginfo |-> NoSig, vfy |-> NoVfy,
           ret |-> 0, status |-> "none", stage |-> "none", created |-> FALSE,
           outatexit |-> Absent, inmade |-> SeedMade]

ResetLocals ==
    /\ cmd' = "none" /\ md' = "sha1" /\ desc' = FALSE
    /\ infile' = "none" /\ outfile' = "none" /\ type' = "none"
    /\ peheader' = U32(0) /\ pe32plus' = 0
    /\ sigpos' = U32(0) /\ siglen' = U32(0) /\ fileend' = U32(0)
    /\ hash' = DigestInit /\ siginfo' = NoSig /\ ret' = 0 /\ vfy' = NoVfy
    /\ curl' = NoCurl

\* the process is over: loc are its locals at that point, r its exit status
EndRun(loc, r, st, stage, f2, m2, c2) ==
    /\ fs' = f2
    /\ made' = m2
    /\ cur' = c2
    /\ runs' = runs + 1
    /\ pc' = "idle"
    /\ last' = [cmd |-> loc.cmd, md |-> loc.md, desc |-> loc.desc,
                infile |-> loc.infile, outfile |-> loc.outfile,
                type |-> loc.type, peheader |-> loc.peheader,
                pe32plus |-> loc.pe32plus, sigpos |-> loc.sigpos,
                siglen |-> loc.siglen, fileend |-> loc.fileend,
                siginfo |-> loc.siginfo, vfy |-> loc.vfy,
                ret |-> r, status |-> st, stage |-> stage,
                \* BIO_new_file(outfile, "w+b") had been reached
                created |-> pc \in {"created", "parsed", "copied", "signed", "skip"}
                              /\ loc.cmd # "verify" /\ loc.type # "MSI",
                \* the output path as the process leaves it, before any
                \* unlink: its bytes, or Absent
                outatexit |-> IF loc.outfile \in DOMAIN fs
                              THEN fs[loc.outfile] ELSE Absent,
                inmade |-> made[loc.infile]]
    /\ ResetLocals

\* err_cleanup: unlink(outfile); return -1.  (outfile is NULL for verify.)
unlink_skip(f, p) == f

err_unlink(f, p) == Unlink(f, p)

Err(loc, stage) ==
    EndRun(loc, 0 - 1, "err", stage,
           err_unlink(fs, loc.outfile), Unlink(made, loc.outfile), cur)

\* SIGSEGV: the process is killed where it stands.  What the stretch wrote
\* was still in the stdio buffer of the output (every file of the model is
\* shorter than one buffer), so the output stays as it was.
SIGSEGV == 128 + 11

Crashed(loc, stage) ==
    EndRun(loc, SIGSEGV, "crash", stage, fs, made, cur)

Init ==
    /\ \E s \in Seeds : fs = [p \in Paths |-> IF p = "a" THEN s ELSE Stale]
    /\ made = [p \in Paths |-> [SeedMade EXCEPT !.op = IF p = "a" THEN "seed" ELSE "stale"]]
    /\ cur = "a"
    /\ runs = 0
    /\ pc = "idle"
    /\ cmd = "none" /\ md = "sha1" /\ desc = FALSE
    /\ infile = "none" /\ outfile = "none" /\ type = "none"
    /\ peheader = U32(0) /\ pe32plus = 0
    /\ sigpos = U32(0) /\ siglen = U32(0) /\ fileend = U32(0)
    /\ hash = DigestInit /\ siginfo = NoSig /\ ret = 0 /\ vfy = NoVfy
    /\ last = NoLast
    /\ curl = NoCurl

CabFlagsSet_low(f) == f[31] # 0

\* indata[0x1e] != 0x00 || indata[0x1f] != 0x00
CabFlagsSet(f) == f[31] # 0 \/ f[32] # 0

\* memcmp(indata, "MSCF", 4) ... : the file type, "none" if unrecognized
FileType(f) ==
    IF MapRead(f, 0, 4, 0) = <<77, 83, 67, 70>> THEN "CAB"
    ELSE IF MapRead(f, 0, 2, 0) = <<77, 90>> THEN "PE"
    ELSE IF MapRead(f, 0, 8, 0) = msi_signature THEN "MSI"
    ELSE "none"

\* main from the end of argument parsing to the point where the output is
\* about to be created (lines 1313-1394): credentials, stat, open, mmap,
\* file type, the early CAB and PE checks
Begin(c, m, d, flt) ==
    /\ pc = "idle"
    /\ runs < MaxRuns
    \* a further invocation is made on the file a sign or a remove wrote
    /\ runs > 0 => (last.status = "ok" /\ last.cmd \in {"sign", "remove"})
    /\ (c # "sign" \/ flt # "none") => (m = "sha1" /\ d = FALSE)
    /\ flt = "cred" => c = "sign"
    /\ LET f   == fs[cur]
           t   == FileType(f)
           ph  == GET_UINT32_LE(f, 60, 0)
           loc == [Locals EXCEPT !.cmd = c, !.md = m, !.desc = d,
                      !.infile = cur,
                      !.outfile = IF c = "verify" THEN "none" ELSE Other(cur),
                      !.type = t, !.fileend = U32(Len(f))]
       IN IF flt = "cred" THEN Err(loc, "credentials")
          ELSE IF flt = "open" THEN Err(loc, "open")
          ELSE IF Len(f) < 4 THEN Err(loc, "tooshort")
          ELSE IF t = "none" THEN Err(loc, "filetype")
          ELSE IF c # "sign" /\ t # "PE" THEN Err(loc, "nonpe")
          ELSE IF t = "CAB" /\ Len(f) < 44 THEN Err(loc, "cabshort")
          ELSE IF t = "CAB" /\ CabFlagsSet(f)
               THEN Err(loc, "cabflags")
          ELSE IF t = "PE" /\ Len(f) < 64 THEN Err(loc, "dosshort")
          ELSE IF t = "PE" /\ Lt32(U32(Len(f)), Add32(ph, U32(160)))
               THEN Err(loc, "peshort")
          ELSE IF t = "PE" /\ Beyond(f, PtrOff(ph), 4)
               \* memcmp(indata+peheader, ...) outside the mapping: killed,
               \* or garbage that is not "PE\0\0"
               THEN \E g \in OobOutcomes :
                       IF g = Crash THEN Crashed(loc, "pesig")
                       ELSE Err(loc, "pesig")
          ELSE IF t = "PE" /\ MapRead(f, PtrOff(ph), 4, 0) # <<80, 69, 0, 0>>
               THEN Err(loc, "pesig")
          ELSE /\ pc' = IF t = "MSI" THEN "msi" ELSE "opened"
               /\ cmd' = c /\ md' = m /\ desc' = d
               /\ infile' = cur /\ outfile' = loc.outfile
               /\ type' = t
               /\ peheader' = IF t = "PE" THEN ph ELSE U32(0)
               /\ fileend' = U32(Len(f))
               /\ hash' = DigestInit
               /\ UNCHANGED <<fs, made, cur, runs, pe32plus, sigpos, siglen,
                              siginfo, ret, vfy, last, curl>>

\* lines 1455-1463: outdata = BIO_new_file(outfile, "w+b") creates the
\* file or truncates the one that is there
CreateOutput(fail) ==
    /\ pc = "opened"
    /\ cmd # "verify"
    /\ IF fail THEN Err(Locals, "create")
       ELSE /\ fs' = Write(fs, outfile, <<>>)
            /\ made' = Write(made, outfile, [SeedMade EXCEPT !.op = "partial"])
            /\ pc' = "created"
            /\ UNCHANGED <<cur, runs, cmd, md, desc, infile, outfile, type,
                           peheader, pe32plus, sigpos, siglen, fileend, hash,
                           siginfo, ret, vfy, last, curl>>

\* (cmd == CMD_REMOVE || cmd == CMD_EXTRACT) && sigpos == 0
NeedsSignature_extract(c, sp) == c = "extract" /\ sp = U32(0)

NeedsSignature(c, sp) == c \in {"remove", "extract"} /\ sp = U32(0)

\* nrvas < 5 for an unsigned int
Below5(a) == a.hi = 0 /\ a.lo < 5

\* lines 1510-1539: magic, number of data directories, the certificate
\* table entry, its position, presence of a signature
ParsePE ==
    /\ type = "PE"
    /\ pc = IF cmd = "verify" THEN "opened" ELSE "created"
    /\ LET f  == fs[infile]
           ph == PtrOff(peheader)
       IN \E g \in IF Beyond(f, ph + 24, 152 + 16) THEN OobOutcomes ELSE {0} :
            LET magic == GET_UINT16_LE(f, ph + 24, g)
                plus  == IF magic = 523 THEN 1 ELSE 0
                nrvas == GET_UINT32_LE(f, ph + 116 + plus * 16, g)
                sp    == GET_UINT32_LE(f, ph + 152 + plus * 16, g)
                sl    == GET_UINT32_LE(f, ph + 152 + plus * 16 + 4, g)
                loc   == [Locals EXCEPT !.pe32plus = plus, !.sigpos = sp,
                                        !.siglen = sl]
            IN IF g = Crash THEN Crashed(Locals, "parse")
               ELSE IF magic # 523 /\ magic # 267
                    THEN Err(Locals, "magic")
               ELSE IF Below5(nrvas)
                    THEN Err([Locals EXCEPT !.pe32plus = plus], "nrvas")
               ELSE IF sp # U32(0) /\ Add32(sp, sl) # U32(Len(f))
                    THEN Err(loc, "notatend")
               ELSE IF NeedsSignature(cmd, sp)
                    THEN Err(loc, "nosig")
               ELSE /\ pc' = "parsed"
                    /\ pe32plus' = plus
                    /\ sigpos' = sp
                    /\ siglen' = sl
                    /\ UNCHANGED <<fs, made, cur, runs, cmd, md, desc, infile,
                                   outfile, type, peheader, fileend, hash,
                                   siginfo, ret, vfy, last, curl>>

\* lines 1541-1546: BIO_reset(outdata); BIO_write(outdata, indata + sigpos,
\* siglen).  A siglen that is negative as an int makes fwrite run off the
\* mapping: the process is killed or nothing is written.
ExtractBytes_payload(f, sp, sl, g) ==
    MapRead(f, PtrOff(sp) + 8, Max(0, AsInt(sl) - 8), g)

ExtractBytes_fromstart(f, sp, sl, g) == MapRead(f, 0, Max(0, AsInt(sl)), g)

ExtractBytes(f, sp, sl, g) == MapRead(f, PtrOff(sp), Max(0, AsInt(sl)), g)

Extract ==
    /\ pc = "parsed"
    /\ cmd = "extract"
    /\ LET f  == fs[infile]
           ub == AsInt(siglen) < 0 \/ Beyond(f, PtrOff(sigpos), AsInt(siglen))
       IN \E g \in IF ub THEN OobOutcomes ELSE {0} :
            IF g = Crash THEN Crashed(Locals, "extract")
            ELSE /\ fs' = Write(fs, outfile, ExtractBytes(f, sigpos, siglen, g))
                 /\ pc' = "skip"
                 /\ UNCHANGED <<made, cur, runs, cmd, md, desc, infile, outfile,
                                type, peheader, pe32plus, sigpos, siglen,
                                fileend, hash, siginfo, ret, vfy, last, curl>>

-----------------------------------------------------------------------------
(* verify_pe_file.                                                         *)

\* the sigpos argument: sigpos ? sigpos : fileend
VSigPos == IF sigpos # U32(0) THEN sigpos ELSE fileend

\* BIO_new_mem_buf(indata, sigpos + siglen)
VerifyBio(f, g) == MapRead(f, 0, Max(0, AsInt(Add32(VSigPos, siglen))), g)

\* pe_checksum && pe_checksum != real_pe_checksum
ChecksumMismatch(stored, real) == stored # U32(0) /\ stored # real

\* lines 979-1001: the checksum test and the early return
VerifyStart ==
    /\ pc = "parsed"
    /\ cmd = "verify"
    /\ LET f  == fs[infile]
           n  == AsInt(Add32(VSigPos, siglen))
       IN \E g \in IF Beyond(f, 0, n) THEN OobOutcomes ELSE {0} :
            LET stored == GET_UINT32_LE(f, PtrOff(peheader) + 88, g)
                real   == calc_pe_checksum(VerifyBio(f, g), peheader)
                r      == IF ChecksumMismatch(stored, real) THEN 1 ELSE 0
            IN IF g = Crash THEN Crashed(Locals, "verify")
               ELSE /\ ret' = r
                    /\ vfy' = [NoVfy EXCEPT !.ckok = (stored = real),
                                            !.found = siglen # U32(0)]
                    \* siglen == 0: "No signature found", return ret
                    /\ pc' = IF siglen = U32(0) THEN "skip" ELSE "walk"
                    /\ UNCHANGED <<fs, made, cur, runs, cmd, md, desc, infile,
                                   outfile, type, peheader, pe32plus, sigpos,
                                   siglen, fileend, hash, siginfo, last, curl>>

\* if (l%8) l += (8 - l%8)
RoundUp8(l) == IF l.lo % 8 # 0 THEN Add32(l, U32(8 - (l.lo % 8))) ELSE l

\* the longest DER blob of the model: a two-byte header and 127 bytes
MaxDer == 2 + 127

\* one iteration of the loop at lines 1003-1034
VerifyWalk ==
    /\ pc = "walk"
    /\ Lt32(vfy.pos, siglen)
    /\ vfy.mdtype = "unset"
    /\ LET f    == fs[infile]
           base == Min(FarOff, PtrOff(VSigPos) + PtrOff(vfy.pos))
       IN \E g \in IF Beyond(f, base, 8) THEN OobOutcomes ELSE {0} :
            LET l        == GET_UINT32_LE(f, base, g)
                certrev  == GET_UINT16_LE(f, base + 4, g)
                certtype == GET_UINT16_LE(f, base + 6, g)
                \* l - 8 as the long handed to d2i_PKCS7
                avail    == IF l.hi # 0 \/ l.lo < 8 \/ l.lo - 8 > MaxDer
                            THEN MaxDer ELSE l.lo - 8
                p7       == IF certrev = WIN_CERT_REVISION_2
                               /\ certtype = WIN_CERT_TYPE_PKCS_SIGNED_DATA
                            THEN d2i_PKCS7(MapRead(f, base + 8, avail, Max(g, 0)))
                            ELSE NoP7
                idc      == IF p7.ok /\ p7.signed /\ p7.ctype = 4 /\ p7.seqtag = 48
                            THEN d2i_SpcIndirectDataContent(p7.astr)
                            ELSE NoIdc
            IN IF g = Crash THEN Crashed(Locals, "walk")
               ELSE /\ vfy' = [vfy EXCEPT
                                 !.pos = Add32(vfy.pos, RoundUp8(l)),
                                 !.mdtype = IF idc.ok THEN AlgOfCode(idc.alg)
                                            ELSE "unset",
                                 !.mdbuf = IF idc.ok THEN idc.digest ELSE <<>>,
                                 !.p7 = IF idc.ok THEN p7 ELSE NoP7,
                                 !.steps = Min(vfy.steps + 1, 2)]
                    /\ UNCHANGED <<fs, made, cur, runs, pc, cmd, md, desc,
                                   infile, outfile, type, peheader, pe32plus,
                                   sigpos, siglen, fileend, hash, siginfo, ret,
                                   last, curl>>

\* what a caller can find in the return register after "return;" in a
\* function returning int: the value is undefined
UndefinedReturn == {0, 1, 42}

\* lines 1036-1104, after the loop
VerifyFinish ==
    /\ pc = "walk"
    /\ ~(Lt32(vfy.pos, siglen) /\ vfy.mdtype = "unset")
    /\ LET f == fs[infile]
       IN IF vfy.mdtype = "unset"
          THEN \* "Failed to extract current message digest": return;
               \E r \in UndefinedReturn :
                  /\ ret' = r
                  /\ pc' = "skip"
                  /\ UNCHANGED <<fs, made, cur, runs, cmd, md, desc, infile,
                                 outfile, type, peheader, pe32plus, sigpos,
                                 siglen, fileend, hash, siginfo, vfy, last, curl>>
          ELSE IF vfy.mdtype = "none"
          THEN \* EVP_get_digestbynid gives NULL, EVP_MD_size(NULL)
               Crashed(Locals, "mdtype")
          ELSE LET m       == vfy.mdtype
                   cmdbuf  == calc_pe_digest(VerifyBio(f, 0), m, peheader,
                                             pe32plus, VSigPos)
                   astr    == vfy.p7.astr
                   content == IdcContent(astr, Len(astr))
                   verok   == PKCS7_verify(vfy.p7, content)
               IN \E u \in IF Len(vfy.mdbuf) < EVP_MD_size(m) THEN {0, 255} ELSE {0} :
                    LET stored == [k \in 1..EVP_MD_size(m) |->
                                     IF k <= Len(vfy.mdbuf) THEN vfy.mdbuf[k] ELSE u]
                        mdok   == stored = cmdbuf
                    IN /\ ret' = IF mdok /\ verok THEN ret ELSE 1
                       /\ vfy' = [vfy EXCEPT !.cmdbuf = cmdbuf, !.mdok = mdok,
                                             !.verok = verok]
                       /\ pc' = "skip"
                       /\ UNCHANGED <<fs, made, cur, runs, cmd, md, desc,
                                      infile, outfile, type, peheader, pe32plus,
                                      sigpos, siglen, fileend, hash, siginfo,
                                      last, curl>>

-----------------------------------------------------------------------------
(* The copy of the input, the signature, the end of main.                  *)

\* lines 1553-1578: strip the current signature, copy, pad
CopyPE ==
    /\ pc = "parsed"
    /\ cmd \in {"sign", "remove"}
    /\ LET f   == fs[infile]
           fe0 == IF sigpos # U32(0) THEN sigpos ELSE fileend
       IN \E g \in IF PeCopy(f, peheader, pe32plus, fe0, 0).ub
                   THEN OobOutcomes ELSE {0} :
            LET cp == PeCopy(f, peheader, pe32plus, fe0, g)
            IN IF g = Crash THEN Crashed(Locals, "copy")
               ELSE /\ fs' = Write(fs, outfile, cp.out)
                    /\ hash' = cp.ctx
                    /\ fileend' = cp.fileend
                    /\ pc' = "copied"
                    /\ UNCHANGED <<made, cur, runs, cmd, md, desc, infile,
                                   outfile, type, peheader, pe32plus, sigpos,
                                   siglen, siginfo, ret, vfy, last, curl>>

\* lines 1465-1508
ProcessCAB ==
    /\ pc = "created"
    /\ type = "CAB"
    /\ LET f == fs[infile]
       IN \E g \in IF CabCopy(f, 0).ub THEN OobOutcomes ELSE {0} :
            LET cp == CabCopy(f, g)
            IN IF g = Crash THEN Crashed(Locals, "copy")
               ELSE /\ fs' = Write(fs, outfile, cp.out)
                    /\ hash' = cp.ctx
                    /\ pc' = "copied"
                    /\ UNCHANGED <<made, cur, runs, cmd, md, desc, infile,
                                   outfile, type, peheader, pe32plus, sigpos,
                                   siglen, fileend, siginfo, ret, vfy, last, curl>>

\* lines 1395-1453: the streams go through the digest into the children of
\* outole; the sink is a temporary file until outole is closed
ProcessMSI(fail) ==
    /\ pc = "msi"
    /\ IF fail THEN Err(Locals, "gsf")
       ELSE /\ hash' = MsiCopy(fs[infile]).ctx
            /\ pc' = "copied"
            /\ UNCHANGED <<fs, made, cur, runs, cmd, md, desc, infile, outfile,
                           type, peheader, pe32plus, sigpos, siglen, fileend,
                           siginfo, ret, vfy, last, curl>>

\* lines 1583-1743: build the PKCS#7 over the digest, append it
SignAppend(fail, ts) ==
    /\ pc = "copied"
    /\ cmd = "sign"
    /\ IF fail
       THEN \* PKCS7_add_signature, PKCS7_dataInit, PKCS7_dataFinal or the
            \* allocation failed; the timestamp server could not be
            \* reached or its reply could not be used
            Err(Locals, IF ts = "none" THEN "signing" ELSE "timestamp")
       ELSE LET mdbuf  == DigestFinal(md, hash)
                sig    == SignatureFor(md, type, hash, desc)
                enc    == d2i_PKCS7(sig).sig
                p7     == AddCountersignature(ts, sig)
                len    == Len(p7)
                padlen == PadLen(len)
                f      == fs[infile]
                out    == IF type = "PE" THEN fs[outfile] \o PeAppend(p7)
                          ELSE IF type = "CAB"
                          THEN fs[outfile] \o p7 \o Zeros(padlen)
                          ELSE MsiOut(f, MsiCopy(f).names, p7)
            IN /\ fs' = Write(fs, outfile, out)
               /\ made' = Write(made, outfile, [SeedMade EXCEPT !.op = "partial"])
               /\ siginfo' = [len |-> len, padlen |-> padlen,
                              tsreq |-> TsRequest(ts, md, mdbuf, enc)]
               /\ pc' = "signed"
               /\ UNCHANGED <<cur, runs, cmd, md, desc, infile, outfile, type,
                              peheader, pe32plus, sigpos, siglen, fileend, hash,
                              ret, vfy, last, curl>>

\* skip_signing (lines 1745-1769): the directory entry, the checksum, the
\* size of the blob in a cabinet; return ret
Finish ==
    /\ pc \in {"skip", "signed", "copied"}
    /\ pc = "copied" => cmd # "sign"
    /\ LET o0 == IF cmd = "verify" THEN <<>> ELSE fs[outfile]
           o1 == IF type = "PE" /\ cmd = "sign"
                 THEN PutDirEntry(o0, peheader, pe32plus, fileend,
                                  siginfo.len, siginfo.padlen)
                 ELSE o0
           o2 == IF type = "PE" /\ cmd \in {"sign", "remove"}
                 THEN recalc_pe_checksum(o1, peheader)
                 ELSE IF type = "CAB"
                 THEN PutCabBlobLen(o1, siginfo.len, siginfo.padlen)
                 ELSE o1
           how == [op |-> cmd, md |-> md, desc |-> desc,
                   ts |-> siginfo.tsreq.kind,
                   digest |-> DigestFinal(md, hash), src |-> fs[infile]]
       IN EndRun(Locals, ret, "ok", "end",
                 IF cmd = "verify" THEN fs ELSE Write(fs, outfile, o2),
                 IF cmd = "verify" THEN made ELSE Write(made, outfile, how),
                 IF cmd \in {"sign", "remove"} THEN outfile ELSE cur)

Next ==
    \/ \E c \in Cmds, m \in Mds, d \in BOOLEAN, flt \in {"none", "cred", "open"} :
          Begin(c, m, d, flt)
    \/ \E fail \in BOOLEAN : CreateOutput(fail)
    \/ ParsePE
    \/ Extract
    \/ VerifyStart
    \/ VerifyWalk
    \/ VerifyFinish
    \/ CopyPE
    \/ ProcessCAB
    \/ \E fail \in BOOLEAN : ProcessMSI(fail)
    \/ \E fail \in BOOLEAN, ts \in TsModes : SignAppend(fail, ts)
    \/ Finish

Spec == Init /\ [][Next]_vars

-----------------------------------------------------------------------------
(* add_timestamp from curl_easy_perform on: the reply arrives in chunks,    *)
(* each handed to curl_write; then the reply is decoded.  Spec above takes  *)
(* the outcome of the transfer as an input of SignAppend; TsSpec follows    *)
(* the transfer itself, with the variables of main() left where they are.   *)

\* bytes in one chunk, chunks in one reply
MaxChunk == 2
MaxChunks == 3

\* 'A' and '\n'
ReplyBytes == {65, NL}

\* what one call of the write callback may be handed (sz*nmemb may be 0)
Chunks == UNION {[1..n -> ReplyBytes] : n \in 0..MaxChunk}

\* the ways a reply body arrives: its chunks in order
Deliveries == UNION {[1..k -> Chunks] : k \in 0..MaxChunks}

mainvars == <<fs, made, cur, runs, pc, cmd, md, desc, infile, outfile, type,
              peheader, pe32plus, sigpos, siglen, fileend, hash, siginfo,
              ret, vfy, last>>

\* curl_easy_perform is entered: rfc3161 as add_timestamp was called, the
\* body on its way in some delivery
TsInit ==
    /\ fs = [p \in Paths |-> IF p = "a" THEN PlainPE(64, 0, 0) ELSE Stale]
    /\ made = [p \in Paths |-> [SeedMade EXCEPT !.op = IF p = "a" THEN "seed" ELSE "stale"]]
    /\ cur = "a"
    /\ runs = 0
    /\ pc = "idle"
    /\ cmd = "none" /\ md = "sha1" /\ desc = FALSE
    /\ infile = "none" /\ outfile = "none" /\ type = "none"
    /\ peheader = U32(0) /\ pe32plus = 0
    /\ sigpos = U32(0) /\ siglen = U32(0) /\ fileend = U32(0)
    /\ hash = DigestInit /\ siginfo = NoSig /\ ret = 0 /\ vfy = NoVfy
    /\ last = NoLast
    /\ \E r \in BOOLEAN, d \in Deliveries :
          curl = [NoCurl EXCEPT !.state = "perform", !.rfc3161 = r,
                                !.pending = d]

\* libcurl hands the next chunk to the write callback
CurlWrite ==
    /\ curl.state = "perform"
    /\ curl.pending # <<>>
    /\ curl' = [curl_write(curl, Head(curl.pending))
                   EXCEPT !.pending = Tail(curl.pending)]
    /\ UNCHANGED mainvars

\* curl_easy_perform returns c # 0: "CURL failure", bin is freed,
\* add_timestamp returns c
CurlFailure ==
    /\ curl.state = "perform"
    /\ curl' = [curl EXCEPT !.state = "failed", !.pending = <<>>,
                            !.bin = <<>>, !.ret = 1]
    /\ UNCHANGED mainvars

\* curl_easy_perform returned 0 (lines 529-563): the reply is parsed, in
\* the legacy protocol through a base64 filter that is told
\* BIO_FLAGS_BASE64_NO_NL unless a newline was seen; ok: the parse gave a
\* PKCS#7 (otherwise "Failed to convert timestamp reply", return -1)
ReplyDecode(ok) ==
    /\ curl.state = "perform"
    /\ curl.pending = <<>>
    /\ curl' = [curl EXCEPT
                  !.state = "decoded",
                  !.flags = IF ~curl.rfc3161 /\ curl.blob_has_nl = 0
                            THEN {"BIO_FLAGS_BASE64_NO_NL"} ELSE {},
                  !.ret = IF ok THEN 0 ELSE 0 - 1]
    /\ UNCHANGED mainvars

TsNext ==
    \/ CurlWrite
    \/ CurlFailure
    \/ \E ok \in BOOLEAN : ReplyDecode(ok)

TsSpec == TsInit /\ [][TsNext]_vars

-----------------------------------------------------------------------------
(* Properties.  Each is stated on the summary of the invocation that has   *)
(* just returned (pc = "idle"), its input and its output.                  *)

Done(c) == pc = "idle" /\ last.cmd = c

Succeeded(c) == Done(c) /\ last.status = "ok"

\* verify has run on a file that could be opened
Verified == Done("verify") /\ last.stage # "open"

\* a PE image as the format describes it: headers inside the file, the PE
\* header at an even offset, the certificate table absent or the last
\* thing in the file
WellFormedPE(f) ==
    /\ Len(f) >= 64
    /\ SubSeq(f, 1, 2) = <<77, 90>>
    /\ LET ph    == GET_UINT32_LE(f, 60, 0)
           p     == ph.lo
           magic == GET_UINT16_LE(f, p + 24, 0)
           plus  == IF magic = 523 THEN 1 ELSE 0
           sp    == GET_UINT32_LE(f, p + 152 + 16 * plus, 0)
           sl    == GET_UINT32_LE(f, p + 156 + 16 * plus, 0)
       IN /\ ph.hi = 0
          /\ p % 2 = 0
          /\ magic \in {267, 523}
          /\ HdrLen(p, plus) <= Len(f)
          /\ MapRead(f, p, 4, 0) = <<80, 69, 0, 0>>
          /\ ~Below5(GET_UINT32_LE(f, p + 116 + 16 * plus, 0))
          /\ \/ sp = U32(0) /\ sl = U32(0)
             \/ /\ sp.hi = 0 /\ sl.hi = 0
                /\ sp.lo >= HdrLen(p, plus)
                /\ sp.lo + sl.lo = Len(f)

\* the digest stored in the SpcIndirectDataContent of the signed image f
EmbeddedDigest(f) ==
    LET ph   == GET_UINT32_LE(f, 60, 0).lo
        plus == IF GET_UINT16_LE(f, ph + 24, 0) = 523 THEN 1 ELSE 0
        sp   == GET_UINT32_LE(f, ph + 152 + 16 * plus, 0).lo
        p7   == d2i_PKCS7(SubSeq(f, sp + 9, Len(f)))
    IN d2i_SpcIndirectDataContent(p7.astr).digest

\* C1: sign on a well-formed PE image (PE32 or PE32+, any of the three
\* digests) followed by verify on the output: verify returns 0, and the
\* digest it recomputes is the one in the signature sign has just written.
C1_SignThenVerify ==
    (Verified /\ last.inmade.op = "sign"
        /\ WellFormedPE(last.inmade.src))
    => /\ last.status = "ok"
       /\ last.ret = 0
       /\ last.vfy.ckok
       /\ last.vfy.mdok
       /\ last.vfy.verok
       /\ last.vfy.mdtype = last.inmade.md
       /\ last.vfy.cmdbuf = EmbeddedDigest(fs[last.infile])
       /\ last.vfy.cmdbuf = last.inmade.digest

\* C1 witness: a PE32+ image signed with SHA256 and then verified
C1_Witness ==
    /\ Verified /\ last.inmade.op = "sign"
    /\ WellFormedPE(last.inmade.src)
    /\ last.inmade.md = "sha256"
    /\ last.pe32plus = 1
    /\ last.ret = 0
    /\ Len(last.vfy.cmdbuf) = 32

\* the input of the sign that wrote the file now verified is one sign is
\* meant for: a well-formed PE image, or a cabinet or an MSI that sign took
SignInput(src) ==
    \/ WellFormedPE(src)
    \/ FileType(src) \in {"CAB", "MSI"}

\* C2 as stated: for PE, CAB and MSI inputs and each digest, verify on
\* the output of sign returns 0.
C2_RoundTripAllFamilies ==
    (Verified /\ last.inmade.op = "sign" /\ SignInput(last.inmade.src))
    => (last.status = "ok" /\ last.ret = 0)

\* C2 amended: the round trip holds for PE and each digest; on the output
\* of sign for a cabinet or an MSI, verify stops at the command/type check
\* and returns nonzero.
C2_RoundTripPEOnly ==
    (Verified /\ last.inmade.op = "sign" /\ SignInput(last.inmade.src))
    => IF FileType(last.inmade.src) = "PE"
       THEN last.type = "PE" /\ last.status = "ok" /\ last.ret = 0
       ELSE /\ last.type = FileType(last.inmade.src)
            /\ last.status = "err"
            /\ last.stage = "nonpe"
            /\ last.ret # 0

\* C2 witness: verify refused on a signed cabinet (MD5)
C2_Witness ==
    /\ Verified /\ last.inmade.op = "sign"
    /\ last.type = "CAB"
    /\ last.inmade.md = "md5"
    /\ last.ret # 0

In == fs[last.infile]
Out == fs[last.outfile]

\* the certificate table of the input lies inside the file, after the
\* headers, and ends where the file ends
TableInFile ==
    /\ last.sigpos.hi = 0 /\ last.siglen.hi = 0
    /\ last.sigpos.lo >= HdrLen(last.peheader.lo, last.pe32plus)
    /\ last.sigpos.lo + last.siglen.lo = Len(In)

\* the certificate-table directory entry of the image f
DirEntry(f, ph, plus) ==
    <<GET_UINT32_LE(f, ph + 152 + 16 * plus, 0),
      GET_UINT32_LE(f, ph + 156 + 16 * plus, 0)>>

\* the PE checksum of f: the sum over the file with the field taken as zero
PEChecksumOf(f, ph) == calc_pe_checksum(Patch(f, ph + 88, Zeros(4)), U32(ph))

StoredChecksum(f, ph) == GET_UINT32_LE(f, ph + 88, 0)

Up8(n) == ((n + 7) \div 8) * 8

RemovedSigned == Succeeded("remove") /\ TableInFile

\* C3 as stated: after remove-signature on a signed PE image the directory
\* entry is (0,0), the checksum field is valid, and the output is
\* sig_table_pos bytes long.
C3_RemoveLengthIsSigPos ==
    RemovedSigned
    => /\ DirEntry(Out, last.peheader.lo, last.pe32plus) = <<U32(0), U32(0)>>
       /\ StoredChecksum(Out, last.peheader.lo) = PEChecksumOf(Out, last.peheader.lo)
       /\ Len(Out) = last.sigpos.lo

\* C3 amended: the directory entry is (0,0), the checksum field is valid,
\* and the output is sig_table_pos rounded up to a multiple of 8 bytes
\* long, the bytes from sig_table_pos on being zero.
C3_RemoveLengthIsSigPosUp8 ==
    RemovedSigned
    => /\ DirEntry(Out, last.peheader.lo, last.pe32plus) = <<U32(0), U32(0)>>
       /\ StoredChecksum(Out, last.peheader.lo) = PEChecksumOf(Out, last.peheader.lo)
       /\ Len(Out) = Up8(last.sigpos.lo)
       /\ SubSeq(Out, last.sigpos.lo + 1, Len(Out)) = Zeros(Len(Out) - last.sigpos.lo)
       /\ SubSeq(Out, 1, last.peheader.lo + 88) = SubSeq(In, 1, last.peheader.lo + 88)

\* C3 witness: a table at an offset that is not a multiple of 8 was removed
C3_Witness ==
    /\ RemovedSigned
    /\ last.sigpos.lo % 8 # 0
    /\ Len(Out) = last.sigpos.lo + 3

\* remove-signature has run on the output of remove-signature; the input
\* could be opened and the output created
RemovedTwice ==
    /\ Done("remove")
    /\ last.inmade.op = "remove"
    /\ last.stage \notin {"open", "create"}

\* C4 as stated: remove-signature on the output of remove-signature
\* succeeds and writes the same bytes.
C4_RemoveIdempotent ==
    RemovedTwice => (last.status = "ok" /\ Out = In)

\* C4 amended: remove-signature on the output of remove-signature is
\* refused ("PE file does not have any signature"): it returns nonzero,
\* leaves no output file and leaves its input as it was.
C4_SecondRemoveRefused ==
    RemovedTwice
    => /\ last.status = "err"
       /\ last.stage = "nosig"
       /\ last.ret # 0
       /\ last.outfile \notin DOMAIN fs
       /\ made[last.infile].op = "remove"
       /\ DirEntry(In, last.peheader.lo, last.pe32plus) = <<U32(0), U32(0)>>

\* C4 witness: the second remove-signature was refused
C4_Witness ==
    /\ RemovedTwice
    /\ last.stage = "nosig"
    /\ last.created
    /\ last.outfile \notin DOMAIN fs

\* verify_pe_file has returned to main
VerifyReturned == Done("verify") /\ last.type = "PE" /\ last.stage = "end"

\* C5: verify returns 0 exactly when the stored checksum equals the
\* recomputed one, the stored digest equals the recomputed one and the
\* PKCS#7 verifies; otherwise it returns nonzero (and "Failed" is printed).
C5_VerifyReturnCode ==
    VerifyReturned
    => (last.ret = 0 <=> (last.vfy.ckok /\ last.vfy.mdok /\ last.vfy.verok))

\* C5, the failing case: a certificate table that holds no parsable
\* PKCS#7 record, and verify returning 0
C5_Witness ==
    /\ VerifyReturned
    /\ last.siglen # U32(0)
    /\ last.vfy.mdtype = "unset"
    /\ last.ret = 0

ExtractedSigned == Succeeded("extract") /\ TableInFile

\* C6: for a signed PE image, the output of extract-signature is exactly
\* sig_table_len bytes long.
C6_ExtractLength ==
    ExtractedSigned => Len(Out) = last.siglen.lo

\* C6 witness: the table sign wrote was extracted
C6_Witness ==
    /\ ExtractedSigned
    /\ last.inmade.op = "sign"
    /\ Len(Out) = last.siglen.lo
    /\ Len(Out) > 16

\* C7 as stated: the output is the payload of the WIN_CERTIFICATE record
\* without its 8-byte header: its first byte is the input byte at
\* sig_table_pos + 8.
C7_ExtractPayloadOnly ==
    ExtractedSigned
    => /\ Len(Out) > 0
       /\ Out[1] = In[last.sigpos.lo + 8 + 1]

\* C7 amended: the output is the certificate table as it lies in the file,
\* header included: its first byte is the input byte at sig_table_pos, and
\* the PKCS#7 payload starts at byte 8 of the output.
C7_ExtractWholeTable ==
    ExtractedSigned
    => /\ Out = SubSeq(In, last.sigpos.lo + 1, last.sigpos.lo + last.siglen.lo)
       /\ Len(Out) > 0 => Out[1] = In[last.sigpos.lo + 1]
       /\ last.inmade.op = "sign"
          => /\ GET_UINT32_LE(Out, 0, 0) = last.siglen
             /\ GET_UINT16_LE(Out, 4, 0) = WIN_CERT_REVISION_2
             /\ GET_UINT16_LE(Out, 6, 0) = WIN_CERT_TYPE_PKCS_SIGNED_DATA
             /\ d2i_PKCS7(SubSeq(Out, 9, Len(Out))).ok

\* C7 witness: the header of the table sign wrote is in the output
C7_Witness ==
    /\ ExtractedSigned
    /\ last.inmade.op = "sign"
    /\ Out[1] # In[last.sigpos.lo + 8 + 1]
    /\ GET_UINT16_LE(Out, 4, 0) = WIN_CERT_REVISION_2

\* sign, extract-signature or remove-signature has ended without success
Failed ==
    /\ pc = "idle"
    /\ last.cmd \in {"sign", "extract", "remove"}
    /\ last.status # "ok"

\* C8: whenever sign, extract-signature or remove-signature fails after
\* argument parsing, no file exists at the output path afterwards and the
\* process returns nonzero.
C8_NoOutputAfterFailure ==
    Failed => (last.outfile \notin DOMAIN fs /\ last.ret # 0)

\* C8, the failing case: the process was killed while copying, after the
\* output had been created, and the output file is still there
C8_Witness ==
    /\ Failed
    /\ last.status = "crash"
    /\ last.created
    /\ last.outfile \in DOMAIN fs
    /\ fs[last.outfile] # Stale

\* the PE failure modes: file shorter than 64 bytes, no "PE\0\0" at
\* peheader, fewer than 5 data directories, certificate table not at the
\* end of the file, unknown optional-header magic
EarlyModes == {"dosshort", "pesig"}
LateModes == {"nrvas", "notatend", "magic"}

PEFailure(modes) ==
    /\ pc = "idle"
    /\ last.cmd \in {"sign", "extract", "remove"}
    /\ last.type = "PE"
    /\ last.status = "err"
    /\ last.stage \in modes

\* C9 as stated: each of the five failure modes is detected before the
\* output file has been created, truncated or written.
C9_DetectedBeforeOutput ==
    PEFailure(EarlyModes \cup LateModes)
    => (~last.created /\ last.outatexit # <<>>)

\* C9 amended: a file shorter than 64 bytes and a missing "PE\0\0" are
\* detected before the output is opened; an unknown magic, fewer than 5
\* data directories and a table not at the end of the file are detected
\* after the output file has been created or truncated, nothing yet
\* written to it.  In all five the output path is then unlinked, the
\* process returns nonzero and the input is as it was.
C9_DetectedAroundOutput ==
    /\ PEFailure(EarlyModes) => (~last.created /\ last.outatexit = Stale)
    /\ PEFailure(LateModes) => (last.created /\ last.outatexit = <<>>)
    /\ PEFailure(EarlyModes \cup LateModes)
       => /\ last.outfile \notin DOMAIN fs
          /\ last.ret # 0
          /\ last.infile \in DOMAIN fs
          /\ made[last.infile] = last.inmade

\* C9 witness: an unknown magic was found with the output already created
C9_Witness ==
    /\ PEFailure({"magic"})
    /\ last.created
    /\ last.outatexit = <<>>
    /\ last.outfile \notin DOMAIN fs

\* the certificate-table entry of the input lies inside the file
HeadersInFile == HdrLen(last.peheader.lo, last.pe32plus) <= Len(In)

SignedPE == Succeeded("sign") /\ last.type = "PE" /\ last.sigpos.hi = 0

\* the offset field of the certificate-table entry of the output
TableOffset == DirEntry(Out, last.peheader.lo, last.pe32plus)[1]

\* C10 as stated: after sign on a PE image the offset field of the
\* certificate-table entry is the length of the input file rounded up to
\* a multiple of 8.
C10_TableOffsetIsInputLength ==
    SignedPE => TableOffset = U32(Up8(Len(In)))

\* C10 amended: the offset field is the end of the unsigned content
\* rounded up to a multiple of 8: the length of the input file when it
\* has no certificate table, the position of its table when it has one.
C10_TableOffsetIsContentEnd ==
    SignedPE
    => /\ TableOffset = U32(Up8(IF last.sigpos = U32(0) THEN Len(In)
                                 ELSE last.sigpos.lo))
       /\ TableOffset = last.fileend
       /\ (HeadersInFile /\ (TableInFile \/ last.sigpos = U32(0)))
          => AsInt(TableOffset) + AsInt(DirEntry(Out, last.peheader.lo,
                                                 last.pe32plus)[2]) = Len(Out)

\* C10 witness: a signed image was signed again, and the new table starts
\* where the old one started, before the end of the input
C10_Witness ==
    /\ SignedPE
    /\ last.inmade.op = "sign"
    /\ TableOffset = last.sigpos
    /\ AsInt(TableOffset) < Len(In)

\* where the certificate table of the output starts, counted back from the
\* end of the file by the size field of the directory entry
TableSize == AsInt(DirEntry(Out, last.peheader.lo, last.pe32plus)[2])
TableStart == Len(Out) - TableSize

\* the length the DER blob in the table states for itself (short form)
DerLen == Out[TableStart + 8 + 2] + 2

\* C11: after a successful sign of a PE image the DER PKCS#7 is followed by
\* zero bytes up to an 8-byte boundary, pad = (8 - der_len mod 8) mod 8, and
\* the size field of the directory entry and the length field of the
\* WIN_CERTIFICATE header are both 8 + der_len + pad.
C11_TablePadding ==
    SignedPE
    => /\ TableSize = 8 + DerLen + (Up8(DerLen) - DerLen)
       /\ GET_UINT32_LE(Out, TableStart, 0) = U32(TableSize)
       /\ DerLen = last.siginfo.len
       /\ d2i_PKCS7(SubSeq(Out, TableStart + 9, TableStart + 8 + DerLen)).ok
       /\ SubSeq(Out, TableStart + 8 + DerLen + 1, Len(Out))
             = Zeros(Up8(DerLen) - DerLen)
       /\ TableSize % 8 = 0
       /\ (HeadersInFile /\ (TableInFile \/ last.sigpos = U32(0)))
          => (AsInt(TableOffset) = TableStart /\ TableStart % 8 = 0)

\* C11 witness: a blob of 39 bytes (SHA1, with a description) and its one
\* byte of padding
C11_Witness ==
    /\ SignedPE
    /\ HeadersInFile
    /\ DerLen = 39
    /\ TableSize = 48
    /\ Out[Len(Out)] = 0
    /\ AsInt(TableOffset) = TableStart

\* the plain sum of the little-endian 16-bit words [lo, hi) of f, a
\* trailing odd byte counting as a word with a zero high byte
RECURSIVE WordSum(_, _, _)
WordSum(f, lo, hi) ==
    IF hi <= lo THEN 0
    ELSE IF hi = lo + 1
    THEN f[2 * lo + 1] + (IF 2 * lo + 2 <= Len(f) THEN 256 * f[2 * lo + 2] ELSE 0)
    ELSE LET mid == (lo + hi) \div 2
         IN WordSum(f, lo, mid) + WordSum(f, mid, hi)

\* the PE checksum as the format defines it: the words of the file, the
\* checksum field taken as zero, added with end-around carry (the sum
\* modulo 2^16 - 1), plus the length of the file
ReferenceChecksum(f, ph) ==
    LET z == Patch(f, ph + 88, Zeros(4))
        t == WordSum(z, 0, (Len(z) + 1) \div 2)
        folded == IF t = 0 THEN 0 ELSE ((t - 1) % (B16 - 1)) + 1
    IN U32(folded + Len(f))

ChecksumWritten ==
    /\ pc = "idle" /\ last.status = "ok"
    /\ last.cmd \in {"sign", "remove"}
    /\ last.type = "PE"
    /\ last.peheader.hi = 0

ValidSigned == {Signed1, Signed2}

ChecksumFieldZeroed(f, ph) == Patch(f, ph + 88, Zeros(4))

OnlyChecksumChanged(v) ==
    /\ Verified
    /\ last.type = "PE"
    /\ last.peheader = U32(64)
    /\ In # v
    /\ ChecksumFieldZeroed(In, 64) = ChecksumFieldZeroed(v, 64)

\* the digest verify would recompute were the certificate-directory entry
\* of the input filled with other bytes
DigestWithOtherEntry ==
    LET d   == last.peheader.lo + 152 + 16 * last.pe32plus
        alt == Patch(In, d, <<1, 2, 3, 4, 5, 6, 7, 8>>)
    IN calc_pe_digest(SubSeq(alt, 1, last.sigpos.lo), last.vfy.mdtype,
                      last.peheader, last.pe32plus, last.sigpos)

DigestUntouched ==
    /\ last.vfy.mdok
    /\ last.vfy.verok
    /\ last.vfy.cmdbuf = EmbeddedDigest(In)
    /\ last.vfy.cmdbuf = DigestWithOtherEntry

SignedFlaggedCab ==
    /\ Done("sign")
    /\ last.type = "CAB"
    /\ Len(In) >= 32
    /\ (In[31] # 0 \/ In[32] # 0)

\* C14: sign on a cabinet whose flag bytes at 0x1e, 0x1f are not both zero
\* is refused: it fails with a nonzero exit and leaves no output file.
C14_FlaggedCabRefused ==
    SignedFlaggedCab
    => /\ last.status = "err"
       /\ last.ret # 0
       /\ ~last.created
       /\ last.outfile \notin DOMAIN fs
       /\ made[last.infile] = last.inmade

\* C14 witness: refused for a flag bit in the byte at 0x1f alone
C14_Witness ==
    /\ SignedFlaggedCab
    /\ In[31] = 0
    /\ last.stage = "cabflags"
    /\ last.ret # 0
    /\ last.outfile \notin DOMAIN fs

SignedCab == Succeeded("sign") /\ last.type = "CAB"

\* the number of folder entries the header of the input announces
InFolders == GET_UINT16_LE(In, 26, 0)

\* offset i of the input lies in the offset field of a folder entry
InOffsetField(i) == i >= 36 /\ i < 36 + 8 * InFolders /\ (i - 36) % 8 < 4

SignedMsi == Succeeded("sign") /\ last.type = "MSI"

InChildren == MsiChildren(In)
OutChildren == MsiChildren(Out)

\* the streams of that name among ch
Named(ch, nm) == {i \in 1..Len(ch) : ch[i].name = nm}

\* C16: a successful sign of an MSI keeps the content of every input
\* stream (other than an existing "\05DigitalSignature") byte for byte
\* under its name, and the output holds exactly one "\05DigitalSignature"
\* stream, the new DER PKCS#7.
C16_MsiStreamsPreserved ==
    SignedMsi
    => /\ \A i \in 1..Len(InChildren) :
             InChildren[i].name # DigSigName
             => \E j \in 1..Len(OutChildren) :
                   /\ OutChildren[j].name = InChildren[i].name
                   /\ OutChildren[j].data = InChildren[i].data
       /\ Cardinality(Named(OutChildren, DigSigName)) = 1
       /\ \A j \in Named(OutChildren, DigSigName) :
             /\ d2i_PKCS7(OutChildren[j].data).ok
             /\ Len(OutChildren[j].data) = last.siginfo.len
       /\ MsiClassId(Out) = MsiClassId(In)

\* C16, the failing case: the input had a stream whose name is not
\* "\05DigitalSignature" but decodes to it, and the output has no stream of
\* that name
C16_Witness ==
    /\ SignedMsi
    /\ \E i \in 1..Len(InChildren) :
          /\ InChildren[i].name # DigSigName
          /\ msi_decode(InChildren[i].name) = DigSigName
          /\ Named(OutChildren, InChildren[i].name) = {}
    /\ Cardinality(Named(OutChildren, DigSigName)) = 1

\* the names msi_cmp is applied to while the input is read: those of the
\* children that are not taken for the signature
SortedNames == {InChildren[i].name : i \in
                   {j \in 1..Len(InChildren) :
                       msi_decode(InChildren[j].name) # DigSigName}}

\* the children of the input enumerated in the order p
Enumerated(p) == [i \in 1..Len(InChildren) |-> InChildren[p[i]]]

\* C17: msi_cmp is antisymmetric and transitive on the distinct names of
\* the streams, so the order in which the streams are hashed and written
\* is the same for every order in which the children are enumerated.
C17_StreamOrderIsTotal ==
    SignedMsi
    => /\ \A a, b \in SortedNames :
             a # b => (msi_cmp(a, b) < 0 <=> msi_cmp(b, a) > 0)
       /\ \A a, b, c \in SortedNames :
             (msi_cmp(a, b) < 0 /\ msi_cmp(b, c) < 0) => msi_cmp(a, c) < 0
       /\ \A p \in Permutations(1..Len(InChildren)) :
             MsiSorted(Enumerated(p), Len(InChildren))
                = MsiSorted(InChildren, Len(InChildren))

\* C17, the failing case: two distinct names each of which compares below
\* the other, and a sorted order that is the reverse for the reverse
\* enumeration
C17_Witness ==
    /\ SignedMsi
    /\ Len(InChildren) = 2
    /\ InChildren[1].name # InChildren[2].name
    /\ msi_cmp(InChildren[1].name, InChildren[2].name) < 0
    /\ msi_cmp(InChildren[2].name, InChildren[1].name) < 0
    /\ MsiSorted(InChildren, 2) = <<InChildren[2].name, InChildren[1].name>>
    /\ MsiSorted(Enumerated(<<2, 1>>), 2) = <<InChildren[1].name, InChildren[2].name>>
    /\ OutChildren[1].name = InChildren[2].name

\* the signature blob with its padding, at the end of the signed cabinet,
\* and what precedes it
BlobStart == Len(Out) - (last.siginfo.len + last.siginfo.padlen)
BeforeBlob == SubSeq(Out, 1, BlobStart)

\* the digest the signature in the cabinet carries
CabEmbeddedDigest ==
    d2i_SpcIndirectDataContent(
        d2i_PKCS7(SubSeq(Out, BlobStart + 1, Len(Out))).astr).digest

\* C18 as stated: the bytes written to the output before the signature
\* blob, the 20-byte cabsigned template among them, are in that order the
\* bytes fed to the digest.
C18_CabDigestCoversOutput ==
    SignedCab
    => \/ CabEmbeddedDigest = DigestOf(last.md, BeforeBlob)
       \/ CabEmbeddedDigest
             = DigestOf(last.md, Patch(BeforeBlob, 48, <<222, 173, 190, 239>>))

\* C18 amended: the bytes fed to the digest are, in order, the bytes
\* written before the blob except the 4 bytes at offset 4, the 2 bytes at
\* offset 0x22 and the 20-byte cabsigned template at offset 0x24; of the
\* reserve area only the 4 zero bytes after the template are digested.
C18_CabDigestSkipsTemplate ==
    SignedCab
    => /\ CabEmbeddedDigest
             = DigestOf(last.md, SubSeq(BeforeBlob, 1, 4)
                                   \o SubSeq(BeforeBlob, 9, 34)
                                   \o SubSeq(BeforeBlob, 57, BlobStart))
       /\ CabEmbeddedDigest = made[last.outfile].digest
       /\ SubSeq(BeforeBlob, 37, 44) = <<20, 0, 0, 0, 0, 0, 16, 0>>
       /\ SubSeq(BeforeBlob, 5, 8) = SubSeq(In, 5, 8)
       /\ SubSeq(BeforeBlob, 35, 36) = SubSeq(In, 35, 36)
       /\ BeforeBlob[31] = 4

\* C18 witness: a cabinet signed with MD5 whose digest is the one of the
\* output without the 26 bytes that bypass the digest
C18_Witness ==
    /\ SignedCab
    /\ last.md = "md5"
    /\ BlobStart = Len(In) + 24
    /\ CabEmbeddedDigest # DigestOf(last.md, BeforeBlob)
    /\ CabEmbeddedDigest[3] = BlobStart - 26

DeadBeef == <<222, 173, 190, 239>>

CabSizeValues ==
    {U32(Len(Out)), U32(BlobStart), Add32(GET_UINT32_LE(In, 8, 0), U32(24))}

BlobLenValues ==
    {U32(last.siginfo.len), U32(last.siginfo.len + last.siginfo.padlen)}

NoPlaceholder == \A o \in 0..56 : SubSeq(Out, o + 1, o + 4) # DeadBeef

BlobAppended ==
    /\ d2i_PKCS7(SubSeq(Out, BlobStart + 1, BlobStart + last.siginfo.len)).ok
    /\ Out[BlobStart + 2] + 2 = last.siginfo.len
    /\ SubSeq(Out, BlobStart + last.siginfo.len + 1, Len(Out))
          = Zeros(last.siginfo.padlen)

\* C19 as stated: after a successful sign of a cabinet the blob is
\* appended, and the dwords at output offsets 0x30 and 0x34 hold the
\* cabinet size and the length of the blob; no 0xdeadbeef is left.
C19_PlaceholdersAt30And34 ==
    SignedCab
    => /\ BlobAppended
       /\ NoPlaceholder
       /\ \/ /\ GET_UINT32_LE(Out, 48, 0) \in CabSizeValues
             /\ GET_UINT32_LE(Out, 52, 0) \in BlobLenValues
          \/ /\ GET_UINT32_LE(Out, 48, 0) \in BlobLenValues
             /\ GET_UINT32_LE(Out, 52, 0) \in CabSizeValues

\* C19 amended: the two placeholders of the template are at output
\* offsets 0x2c and 0x30.  The first holds the input's cbCabinet + 24 (the
\* offset of the blob when cbCabinet is the input's length), written with
\* the template; the second is patched at the end with the length of the
\* blob, padding included.  The dword at 0x34 is zero.
C19_PlaceholdersAt2cAnd30 ==
    SignedCab
    => /\ BlobAppended
       /\ NoPlaceholder
       /\ GET_UINT32_LE(Out, 44, 0) = Add32(GET_UINT32_LE(In, 8, 0), U32(24))
       /\ GET_UINT32_LE(Out, 44, 0) = GET_UINT32_LE(Out, 8, 0)
       /\ GET_UINT32_LE(Out, 48, 0) = U32(last.siginfo.len + last.siginfo.padlen)
       /\ GET_UINT32_LE(Out, 52, 0) = U32(0)
       /\ (GET_UINT32_LE(In, 8, 0) = U32(Len(In)) /\ 36 + 8 * InFolders <= Len(In))
          => GET_UINT32_LE(Out, 44, 0) = U32(BlobStart)

\* C19 witness: a blob of 35 bytes and 5 bytes of padding in a cabinet
\* of 52 bytes: 76 at 0x2c, 40 at 0x30
C19_Witness ==
    /\ SignedCab
    /\ Len(In) = 52
    /\ last.siginfo.len = 35
    /\ GET_UINT32_LE(Out, 44, 0) = U32(76)
    /\ GET_UINT32_LE(Out, 48, 0) = U32(40)
    /\ BlobStart = 76

\* the DER PKCS#7 in the output of sign, whatever the container
OutBlob ==
    IF last.type = "PE"
    THEN SubSeq(Out, TableStart + 9, TableStart + 8 + last.siginfo.len)
    ELSE IF last.type = "CAB"
    THEN SubSeq(Out, BlobStart + 1, BlobStart + last.siginfo.len)
    ELSE OutChildren[CHOOSE j \in Named(OutChildren, DigSigName) : TRUE].data

\* the encryptedDigest of its SignerInfo
EncryptedDigest == d2i_PKCS7(OutBlob).sig

TimestampedRfc3161 ==
    Succeeded("sign") /\ last.siginfo.tsreq.kind = "rfc3161"

\* the parts of the request that do not depend on what is hashed
RequestFrame ==
    /\ last.siginfo.tsreq.version = 1
    /\ last.siginfo.tsreq.certReq
    /\ last.siginfo.tsreq.alg = AlgCode(last.md)
    /\ Len(last.siginfo.tsreq.digest) = EVP_MD_size(last.md)

\* C20: with -ts, the TimeStampReq has version 1, certReq TRUE, and a
\* messageImprint made of the file's digest algorithm and the digest, under
\* that algorithm, of the SignerInfo's encryptedDigest.
C20_ImprintIsDigestOfSignature ==
    TimestampedRfc3161
    => /\ RequestFrame
       /\ last.siginfo.tsreq.digest = DigestOf(last.md, EncryptedDigest)

\* C20, the failing case: the hashed message of the request is the
\* Authenticode digest of the file, the one in the SpcIndirectDataContent
C20_Witness ==
    /\ TimestampedRfc3161
    /\ last.md = "sha256"
    /\ RequestFrame
    /\ last.siginfo.tsreq.digest = made[last.outfile].digest
    /\ last.siginfo.tsreq.digest
          = d2i_SpcIndirectDataContent(d2i_PKCS7(OutBlob).astr).digest
    /\ last.siginfo.tsreq.digest # DigestOf(last.md, EncryptedDigest)


-----------------------------------------------------------------------------
(* C21: newline sniffing of the legacy timestamp reply.                     *)

\* the reply of a legacy (-t) request went through the base64 filter
LegacyReplyDecoded == curl.state = "decoded" /\ ~curl.rfc3161

\* the body as received: a newline somewhere in it
BodyHasNewline == \E i \in 1..Len(curl.bin) : curl.bin[i] = 10

NewlinesRejected == "BIO_FLAGS_BASE64_NO_NL" \in curl.flags

\* C21: in legacy timestamp mode, however the body was cut into chunks,
\* the base64 filter rejects newlines (BIO_FLAGS_BASE64_NO_NL) exactly when
\* the body holds no newline, and permits them when it holds one.
C21_NewlineSniffedInAllChunks ==
    LegacyReplyDecoded => (NewlinesRejected <=> ~BodyHasNewline)

\* a body in several chunks, the first one not empty and free of newlines,
\* a newline in a later one: newlines are permitted
C21_Witness ==
    /\ LegacyReplyDecoded
    /\ Len(curl.sizes) >= 2
    /\ curl.sizes[1] > 0
    /\ \A i \in 1..curl.sizes[1] : curl.bin[i] # 10
    /\ BodyHasNewline
    /\ ~NewlinesRejected


-----------------------------------------------------------------------------
(* C22: the walk over the WIN_CERTIFICATE records ends.                     *)

\* the loop of verify_pe_file is about to test its condition
InWalk == pc = "walk"

\* the record at pos, as the next iteration will read it
LengthAtPos ==
    GET_UINT32_LE(fs[infile],
                  Min(FarOff, PtrOff(VSigPos) + PtrOff(vfy.pos)), 0)

\* C22: verify terminates on every PE input accepted by the header checks:
\* every iteration of the walk strictly advances pos (which the loop
\* condition bounds by siglen, so that the walk is left after finitely many
\* iterations), whatever the length fields hold.
C22_WalkAdvances ==
    [][(InWalk /\ pc' = "walk") => Lt32(vfy.pos, vfy'.pos)]_vars

\* the walk has iterated, pos is where it was and still below siglen, and
\* the length it will read next is again a multiple of 2^32 once rounded:
\* the next iteration leaves every variable of the loop as it is
C22_Witness ==
    /\ InWalk
    /\ vfy.steps >= 2
    /\ vfy.pos = U32(0)
    /\ Lt32(vfy.pos, siglen)
    /\ vfy.mdtype = "unset"
    /\ ~Beyond(fs[infile], PtrOff(VSigPos) + PtrOff(vfy.pos), 8)
    /\ RoundUp8(LengthAtPos) = U32(0)


-----------------------------------------------------------------------------
(* C23: the header bytes read and copied lie inside the input.              *)

\* the running invocation took its input as PE: size >= 64, size >=
\* peheader + 160 as the code computes it, "PE\0\0" at peheader, a known
\* magic, at least 5 data directories
AcceptedPE ==
    /\ type = "PE"
    /\ pc \in {"parsed", "walk", "copied", "signed", "skip"}

\* peheader + 160 is below 2^32
HeaderSumFits == ~(peheader.hi = B16 - 1 /\ peheader.lo + 160 >= B16)

\* end of the certificate-table entry as an offset into the mapping
EntryEnd == PtrOff(peheader) + 160 + 16 * pe32plus

\* fileend - i at line 1569, with fileend as lines 1553-1556 leave it
CopiedTail ==
    AsInt(Sub32(IF sigpos # U32(0) THEN sigpos ELSE fileend,
                Add32(peheader, U32(160 + 16 * pe32plus))))

\* C23: for every input accepted as PE, peheader + 160 does not wrap and
\* is at most the file size, the certificate-table entry (PE32 or PE32+)
\* ends at or before end of file, and the length copied after it on sign
\* and remove is not negative.
C23_HeaderInsideFile ==
    AcceptedPE =>
        /\ HeaderSumFits
        /\ PtrOff(peheader) + 160 <= Len(fs[infile])
        /\ EntryEnd <= Len(fs[infile])
        /\ (cmd \in {"sign", "remove"} /\ pc = "parsed") => CopiedTail >= 0

\* a PE32+ image of exactly peheader + 160 bytes went through the header
\* checks and its copy was made: the entry read at peheader + 168 lies
\* past the end of the file, and the copy is longer than the input
C23_Witness ==
    /\ AcceptedPE
    /\ cmd = "sign"
    /\ pc = "copied"
    /\ pe32plus = 1
    /\ sigpos = U32(0)
    /\ Len(fs[infile]) = peheader.lo + 160
    /\ EntryEnd = Len(fs[infile]) + 16
    /\ Len(fs[outfile]) = EntryEnd


-----------------------------------------------------------------------------
(* C24: the certificate table named by the directory entry lies inside the  *)
(* input.                                                                   *)

\* the input passed sigpos > 0 && sigpos + siglen == st.st_size
SigAtEnd == AcceptedPE /\ sigpos # U32(0)

\* C24: for every PE input that passes the signature-at-end-of-file check,
\* sigpos is at most the file size, sigpos + siglen does not wrap, and the
\* range [sigpos, sigpos + siglen) starts at or after the end of the
\* certificate-table entry and ends at end of file.
C24_TableRangeInsideFile ==
    SigAtEnd =>
        /\ ~Lt32(U32(Len(fs[infile])), sigpos)
        /\ ~Lt32(Add32(sigpos, siglen), sigpos)
        /\ PtrOff(sigpos) + PtrOff(siglen) = Len(fs[infile])
        /\ EntryEnd <= PtrOff(sigpos)

\* extract-signature was killed reading a table that the directory entry
\* places beyond the end of the input, the sum having wrapped to the size
C24_Witness ==
    /\ pc = "idle"
    /\ last.cmd = "extract"
    /\ last.status = "crash"
    /\ Lt32(U32(Len(In)), last.sigpos)
    /\ Add32(last.sigpos, last.siglen) = U32(Len(In))


-----------------------------------------------------------------------------
(* C25: signing again replaces the signature.                               *)

\* the stages at which main refuses its input
RefusedStages == {"tooshort", "filetype", "nonpe", "dosshort", "peshort",
                  "pesig", "magic", "nrvas", "notatend", "nosig"}

\* a command has run on a PE file that sign wrote
RanOnSignedPE ==
    /\ pc = "idle"
    /\ last.cmd \in Cmds
    /\ last.inmade.op = "sign"
    /\ FileType(In) = "PE"

\* the certificate table of the image f ends exactly where f ends and
\* starts after the headers
TableEndsAtEof(f, ph, plus) ==
    LET e == DirEntry(f, ph, plus)
    IN /\ e[1].hi = 0 /\ e[2].hi = 0
       /\ e[1].lo >= HdrLen(ph, plus)
       /\ e[1].lo + e[2].lo = Len(f)

\* sign has run, with the options of the first sign, on a PE file that
\* sign wrote
Resigned ==
    /\ Succeeded("sign")
    /\ last.type = "PE"
    /\ last.inmade.op = "sign"
    /\ last.md = last.inmade.md
    /\ last.desc = last.inmade.desc
    /\ last.siginfo.tsreq.kind = last.inmade.ts

\* f up to the certificate table at off, the checksum field taken as zero
BeforeTable(f, ph, off) == SubSeq(Patch(f, ph + 88, Zeros(4)), 1, off)

\* the table of f is one WIN_CERTIFICATE record: the length the record
\* states is the size of the table
OneRecord(f, ph, plus) ==
    LET e == DirEntry(f, ph, plus)
    IN /\ GET_UINT32_LE(f, e[1].lo, 0) = e[2]
       /\ GET_UINT16_LE(f, e[1].lo + 4, 0) = WIN_CERT_REVISION_2
       /\ GET_UINT16_LE(f, e[1].lo + 6, 0) = WIN_CERT_TYPE_PKCS_SIGNED_DATA

\* C25: the output of a successful PE sign has its certificate table
\* ending exactly at end of file, so that sign, extract-signature,
\* remove-signature and verify take it as input; signing it again gives the
\* same table offset, the same bytes before the table (checksum field
\* aside), the same Authenticode digest, and a table of exactly one record.
C25_ResignReplaces ==
    /\ SignedPE => TableEndsAtEof(Out, last.peheader.lo, last.pe32plus)
    /\ (RanOnSignedPE /\ last.stage \notin {"credentials", "open", "create"})
          => last.stage \notin RefusedStages
    /\ Resigned =>
          /\ TableOffset = DirEntry(In, last.peheader.lo, last.pe32plus)[1]
          /\ BeforeTable(Out, last.peheader.lo, TableOffset.lo)
                = BeforeTable(In, last.peheader.lo, TableOffset.lo)
          /\ made[last.outfile].digest = last.inmade.digest
          /\ EmbeddedDigest(Out) = EmbeddedDigest(In)
          /\ OneRecord(Out, last.peheader.lo, last.pe32plus)

\* a PE32+ image of exactly peheader + 160 bytes was signed: the table the
\* directory entry names starts 16 bytes before the table that was written
C25_Witness ==
    /\ SignedPE
    /\ last.pe32plus = 1
    /\ Len(In) = last.peheader.lo + 160
    /\ TableOffset = U32(Len(In))
    /\ TableOffset.lo + TableSize = Len(Out) - 16


-----------------------------------------------------------------------------
(* C26: calc_pe_checksum and the checksum field.                            *)

\* verify has gone through the checksum test of a PE image whose headers
\* lie inside the file
ChecksumTested ==
    /\ Verified
    /\ last.status = "ok"
    /\ last.type = "PE"
    /\ last.peheader.hi = 0
    /\ last.peheader.lo + 92 <= Len(In)

\* values the 4 bytes at peheader+88 may hold
FieldValues == {Zeros(4), <<1, 0, 0, 0>>, <<0, 0, 1, 0>>, <<255, 255, 255, 255>>}

\* the file verify has read, with v in its checksum field
WithField(v) == Patch(In, last.peheader.lo + 88, v)

\* C26: the result of calc_pe_checksum does not depend on the 4 bytes at
\* peheader+88, for even and odd peheader and every file length; so a file
\* whose checksum field was written by recalc_pe_checksum (by sign or by
\* remove-signature) is reported by verify as having a matching checksum.
C26_ChecksumIgnoresField ==
    ChecksumTested =>
        /\ \A v \in FieldValues :
              calc_pe_checksum(WithField(v), last.peheader)
                 = calc_pe_checksum(In, last.peheader)
        /\ last.inmade.op \in {"sign", "remove"} =>
              /\ last.vfy.ckok
              /\ StoredChecksum(In, last.peheader.lo)
                    = calc_pe_checksum(In, last.peheader)

\* an image with its PE header at an odd offset was signed and then
\* verified: digest and signature are found right, the checksum that sign
\* wrote is reported as not matching, verify returns 1
C26_Witness ==
    /\ ChecksumTested
    /\ last.peheader.lo % 2 = 1
    /\ last.inmade.op = "sign"
    /\ ~last.vfy.ckok
    /\ last.vfy.mdok
    /\ last.vfy.verok
    /\ last.ret = 1
    /\ StoredChecksum(In, last.peheader.lo)
          = calc_pe_checksum(WithField(Zeros(4)), last.peheader)

=============================================================================
